---- MODULE Spec2Model ----
(***************************************************************************)
(* Session lifecycle supervisor of inconnu.js: the registry of live        *)
(* sockets (activeSockets, socketCreationTime), the per-number connection  *)
(* flag global["connecting_<number>"], inconnuboyPair and the              *)
(* connection.update / creds.update listeners it installs.                 *)
(*                                                                         *)
(* Node runs the handlers cooperatively: code between two awaits is one    *)
(* step.  Every action below is one such run-to-the-next-await segment.    *)
(***************************************************************************)
EXTENDS Bags, FiniteSets, Integers, Sequences, TLC

VARIABLES
    activeSockets,       \* Map number -> socket        (0: no entry)
    socketCreationTime,  \* Map number -> Date.now()    (0: no entry)
    connecting,          \* global["connecting_" + number], truthy or not
    sessions,            \* MongoDB session documents   (0: none)
    numbers,             \* MongoDB roster of numbers
    sessionDir,          \* session/session_<number>: whether the directory
                         \* exists (dir) and its creds.json (creds, 0: no file)
    calls,               \* the invocations of inconnuboyPair, in call order
    socks,               \* the socket of each invocation (conn "none": none)
    clock,               \* Date.now(), a logical clock
    nextCreds,           \* the next credential blob the protocol client makes
    retryChain,          \* history: automatic reconnects since the last open
    lastUpdate,          \* history: the connection.update handled by the last step
    lastSave,            \* history: the creds.update listener the last step ended
    discs,               \* the requests of router.get('/disconnect'), in order
    env,                 \* process.env as config.js and the handlers read it
    restartPending,      \* exec("pm2 restart ...") was run for a failure in a
                         \* handler of this number (NoNumber: it was not)
    pending,             \* the message and call listeners that are suspended
                         \* at await getUserConfigFromMongoDB
    lastDispatch,        \* history: the message or call listener the last
                         \* step ended
    otps,                \* MongoDB: the pending OTP of each number
    userConfig,          \* MongoDB: the persisted configuration of each number
    issued,              \* the OTPs router.get('/update-config') has generated
    verifies,            \* the requests of router.get('/verify-otp'), in order
    fleet,               \* the runs of autoReconnectFromMongoDB (the first) and
                         \* of router.get('/connect-all'), in order
    requests             \* the requests of router.get('/update-config'), in order

vars == <<activeSockets, socketCreationTime, connecting, sessions, numbers,
          sessionDir, calls, socks, clock, nextCreds, retryChain, lastUpdate,
          lastSave, discs, env, restartPending, pending, lastDispatch, otps,
          userConfig, issued, verifies, fleet, requests>>

\* the state of the routes other than /code, and of the process
routes == <<discs, env, restartPending, pending, otps, userConfig, issued,
            verifies, fleet, requests>>


---------------------------------------------------------------------------
(* Bounds *)

\* invocations of inconnuboyPair in one behaviour (routes and reconnects)
MaxCalls == 2
\* credential blobs the protocol client produces in one behaviour
MaxCreds == 1
\* invocations in a behaviour of SpecRace: concurrent requests for one number
MaxRace == 3
\* invocations in a behaviour of SpecChain: one request and its reconnects
MaxChain == 4
\* invocations in a behaviour of SpecLife: one request and its reconnects
MaxLife == 2

\* credential blobs in a behaviour of SpecCreds: updates that overlap
MaxBlobs == 2

\* the positions an invocation can take in calls, under any specification
Slots == 1 .. (MaxCalls + MaxRace + MaxChain + MaxLife)

\* requests of /disconnect in a behaviour of SpecDisc
MaxDisc == 2

\* invocations in a behaviour of SpecRetry: one request and its reconnects
MaxRetry == 3

\* invocations in a behaviour of SpecSink: the reconnect at start and the
\* requests of /code
MaxSink == 2

\* OTPs generated in a behaviour of SpecOtp
MaxOtp == 2

\* requests of /verify-otp in a behaviour of SpecOtp
MaxVerify == 2

\* the latest minute of a behaviour of SpecOtp
MaxClock == 7

\* events of the sockets whose listeners are suspended at one time
MaxEvents == 1

\* runs of router.get('/connect-all') in a behaviour of SpecFleet, next to
\* the run of autoReconnectFromMongoDB
MaxFleet == 2

\* the positions a request can take in discs
DiscSlots == 1 .. (MaxDisc + 1)

\* the credential blobs of any specification: the stored one and the fresh ones
Blobs == 1 .. (MaxCreds + MaxBlobs + 1)

(* Program constants *)
maxRestartAttempts == 3

\* "Valid for 5 minutes"
OtpValidity == 5

\* Math.floor(100000 + Math.random() * 900000): the least and the greatest
LeastOtp == 100000
OtpCodes == {LeastOtp, 999999}

\* the otp parameter of a request: a generated code, or another
OtpInputs == OtpCodes \cup {123456}

\* JSON.parse(configString); NoConfig: nothing was applied
NoConfig == "none"
Configs == {"c1", "c2"}

NoOtp == [code |-> 0, config |-> NoConfig, expires |-> 0, serial |-> 0]

NoSocket == 0
NoSession == 0

\* a number parameter that is missing or empty; no number
NoNumber == <<>>

Digits == {"0", "1", "2", "3", "4", "5", "6", "7", "8", "9"}

\* the request's number parameter, a string given as its characters
RawNumbers == { <<"+", "1">>, <<"1">>, <<"2">> }

\* the numbers of the requests in the specifications of one request to
\* connect, and the same with the missing parameter
Callers == { <<"+", "1">>, <<"2">> }
NumberInputs == Callers \cup {NoNumber}

\* number.replace(/[^0-9]/g, '')
IsDigit(c) == c \in Digits
Sanitize(number) == SelectSeq(number, IsDigit)

Tenants == { Sanitize(n) : n \in RawNumbers }

\* the numbers whose session document is in MongoDB when the process starts
PairedBefore == { <<"2">> }

\* lastDisconnect.error: output.statusCode (0: undefined) and the markers
\* that errorMessage?.includes(...) looks for in message
CloseReasons ==
    { [statusCode |-> 401, message |-> {}],
      [statusCode |-> 408, message |-> {}],
      [statusCode |-> 500, message |-> {}],
      [statusCode |-> 0,   message |-> {"401"}],
      [statusCode |-> 0,   message |-> {"QR refs attempts ended"}],
      [statusCode |-> 408, message |-> {"401"}] }

NoReason == [statusCode |-> 0, message |-> {}]

NoUpdate == [call |-> 0, connection |-> "none", lastDisconnect |-> NoReason]

NoSave == [call |-> 0, creds |-> NoSession, result |-> "none", exit |-> "none"]

\* a step that ends no listener of the kinds recorded below
NoMek ==
    [hasMessage |-> FALSE, remoteJid |-> "none", type |-> "none",
     text |-> <<>>, isOwner |-> FALSE, q |-> FALSE]

\* userConfig of a listener that has not read it yet
NoFlags ==
    [READ_MESSAGE |-> FALSE, AUTO_VIEW_STATUS |-> FALSE,
     AUTO_LIKE_STATUS |-> FALSE, AUTO_STATUS_REPLY |-> FALSE,
     AUTO_TYPING |-> FALSE, AUTO_RECORDING |-> FALSE, ANTI_CALL |-> FALSE]

\* the run of a listener: the event, the call pc that it awaits, its const
\* userConfig (flags), what went wrong, how it ended, and what it did
NoDispatch ==
    [call |-> 0, listener |-> "none", mek |-> NoMek, pc |-> "none",
     flags |-> NoFlags, fault |-> "none",
     outcome |-> "none", cmd |-> <<>>, passive |-> <<>>, stats |-> <<>>,
     pluginError |-> FALSE, unhandled |-> 0, auto |-> <<>>]

\* process.env: WORK_TYPE (config.js) and whether PM2_NAME is set
DefaultEnv == [WORK_TYPE |-> "public", PM2_NAME |-> FALSE]
Envs == [WORK_TYPE : {"public", "private"}, PM2_NAME : BOOLEAN]

\* a run of autoReconnectFromMongoDB ("auto") or of /connect-all ("route")
\* at its await getAllNumbersFromMongoDB()
NewRun(kind) ==
    [kind |-> kind, pc |-> "fetch", roster |-> <<>>, turn |-> 0, call |-> 0,
     invoked |-> <<>>, results |-> <<>>, status |-> 0]

\* a run that has ended: /connect-all has answered with status, from the
\* run as it is in f; autoReconnectFromMongoDB has returned, and nothing of
\* it is left but lines of the log
EndOfRun(f, status) ==
    IF f.kind = "route" THEN [f EXCEPT !.pc = "done", !.status = status]
    ELSE [NewRun("auto") EXCEPT !.pc = "done"]

Quiet == lastSave' = NoSave /\ lastDispatch' = NoDispatch /\ UNCHANGED routes

Includes(message, s) == s \in message

---------------------------------------------------------------------------
(* Registry *)

\* the lookup made with the number as given, not sanitized
isNumberAlreadyConnected_Raw(number) ==
    number \in DOMAIN activeSockets /\ activeSockets[number] # NoSocket

isNumberAlreadyConnected(number) == activeSockets[Sanitize(number)] # NoSocket

(* Result sink.  A route hands in the express response ("http"): res.json  *)
(* sends and sets headersSent.  Reconnects hand in mockRes ("mock"):       *)
(* headersSent stays false and json does nothing.                          *)
headersSent(call) == call.res = "http" /\ Len(call.sent) > 0

\* a response that is never written
Respond_Silent(call, body) == call

\* if (res && !res.headersSent) res.json(body)
Respond(call, body) ==
    IF call.res = "http" /\ ~headersSent(call)
    THEN [call EXCEPT !.sent = Append(@, body)]
    ELSE call

\* finally { if (connectionLockKey) global[connectionLockKey] = false }
Finally(lock, keySet, t) ==
    IF keySet THEN [lock EXCEPT ![t] = FALSE] ELSE lock

NewCall(number, res) ==
    [number |-> number, res |-> res, pc |-> "done",
     existingSession |-> NoSession, acquired |-> FALSE, released |-> FALSE,
     exit |-> "none", sent |-> <<>>]

NoSock ==
    [conn |-> "none", listeners |-> FALSE,
     restartAttempts |-> 0, usePairingCode |-> FALSE,
     closePc |-> "none",
     pairTimer |-> "none", pairing |-> "none",
     setupRejected |-> "none", stopped |-> "none",
     savingCreds |-> 0, readFailed |-> FALSE, credsPc |-> EmptyBag,
     saveFailed |-> FALSE,
     openPc |-> "none"]

TenantOf(i) == Sanitize(calls[i].number)

---------------------------------------------------------------------------
\* the blob of a creds.json left in the session directory of a number by a
\* process that ended without its exit handler
LeftOver == 1

\* session/session_<number>: the directory, and the blob of its creds.json
LocalSession(dir, creds) == [dir |-> dir, creds |-> creds]

\* the process starts; paired: the numbers of the store's roster.  The
\* numbers that are not paired have a leftover local session.  The timer of
\* setTimeout(() => autoReconnectFromMongoDB(), 3000) is set.
InitStore(e, paired) ==
    /\ env = e
    /\ restartPending = NoNumber
    /\ pending = {}
    /\ lastDispatch = NoDispatch
    /\ otps = [t \in Tenants |-> NoOtp]
    /\ userConfig = [t \in Tenants |-> NoConfig]
    /\ issued = 0
    /\ verifies = <<>>
    /\ fleet = <<NewRun("auto")>>
    /\ requests = <<>>
    /\ activeSockets = [t \in Tenants |-> NoSocket]
    /\ socketCreationTime = [t \in Tenants |-> 0]
    /\ connecting = [t \in Tenants |-> FALSE]
    /\ sessions = [t \in Tenants |-> IF t \in paired THEN 1 ELSE NoSession]
    /\ numbers = { t \in Tenants : sessions[t] # NoSession }
    /\ sessionDir = [t \in Tenants |->
                        IF t \in paired THEN LocalSession(FALSE, NoSession)
                        ELSE LocalSession(TRUE, LeftOver)]
    /\ calls = <<>>
    /\ socks = <<>>
    /\ clock = 1
    /\ nextCreds = 1
    /\ retryChain = [t \in Tenants |-> 0]
    /\ lastUpdate = NoUpdate
    /\ lastSave = NoSave
    /\ discs = <<>>

InitWith(e) == InitStore(e, PairedBefore)

\* the process started with no WORK_TYPE and no PM2_NAME in its environment
Init == InitWith(DefaultEnv)

\* the process started with any roster in the store
InitRoster == \E paired \in SUBSET Tenants : InitStore(DefaultEnv, paired)

\* the process started with any environment
InitEnv == \E e \in Envs : InitWith(e)

---------------------------------------------------------------------------
(* inconnuboyPair, up to its first await *)

AlreadyConnectedExit(number, res) ==
    /\ calls' = Append(calls,
                  Respond([NewCall(number, res) EXCEPT !.exit = "already_connected"],
                          "already_connected"))
    /\ connecting' = Finally(connecting, FALSE, Sanitize(number))

ConnectionInProgressExit(number, res) ==
    /\ calls' = Append(calls,
                  Respond([NewCall(number, res) EXCEPT
                              !.exit = "connection_in_progress",
                              !.released = TRUE],
                          "connection_in_progress"))
    /\ connecting' = Finally(connecting, TRUE, Sanitize(number))

AcquireLock(number, res) ==
    /\ calls' = Append(calls,
                  [NewCall(number, res) EXCEPT !.pc = "getSession",
                                               !.acquired = TRUE])
    /\ connecting' = [connecting EXCEPT ![Sanitize(number)] = TRUE]

inconnuboyPairEntry(number, res, socksBase) ==
    /\ IF isNumberAlreadyConnected(number)
       THEN AlreadyConnectedExit(number, res)
       ELSE IF connecting[Sanitize(number)]
            THEN ConnectionInProgressExit(number, res)
            ELSE AcquireLock(number, res)
    /\ socks' = Append(socksBase, NoSock)

\* router.get('/code'), while fewer than max invocations were made
RouteCodeUpTo(number, max) ==
    /\ Len(calls) < max
    /\ inconnuboyPairEntry(number, "http", socks)
    /\ UNCHANGED <<activeSockets, socketCreationTime, sessions, numbers,
                   sessionDir, clock, nextCreds, retryChain>>
    /\ lastUpdate' = NoUpdate
    /\ Quiet

---------------------------------------------------------------------------
(* inconnuboyPair, after getSessionFromMongoDB *)

\* getSessionFromMongoDB(number): the stored document, or nothing
getSessionFromMongoDB(t) == sessions[t]

\* fs.ensureDirSync(sessionDir); fs.writeFileSync(creds.json, existingSession)
RestoreLocal(dir, t, existingSession) ==
    [dir EXCEPT ![t] = LocalSession(TRUE, existingSession)]

\* where the invocation awaits next, once the lookup has returned: at
\* fs.remove when nothing is stored and fs.existsSync(sessionDir), whatever
\* the directory holds, else at useMultiFileAuthState
AfterLookup(existingSession, local) ==
    IF existingSession = NoSession /\ local.dir THEN "removeDir"
    ELSE "makeSocket"

\* catch (err) { if (res && !res.headersSent) res.json({error}) }, and the
\* return through finally
Caught(call) ==
    [Respond(call, "internal_error") EXCEPT
        !.pc = "done", !.exit = "error", !.released = TRUE]

\* catch (err) { ... } finally { release }
CatchAndRelease(i) ==
    /\ calls' = [calls EXCEPT ![i] = Caught(@)]
    /\ connecting' = Finally(connecting, TRUE, TenantOf(i))

ConnectGetSession(i, ok) ==
    /\ i \in DOMAIN calls
    /\ calls[i].pc = "getSession"
    /\ IF ok
       THEN LET existingSession == getSessionFromMongoDB(TenantOf(i)) IN
            /\ sessionDir' = IF existingSession = NoSession THEN sessionDir
                             ELSE RestoreLocal(sessionDir, TenantOf(i), existingSession)
            /\ calls' = [calls EXCEPT
                           ![i].pc = AfterLookup(existingSession,
                                                 sessionDir[TenantOf(i)]),
                           ![i].existingSession = existingSession]
            /\ UNCHANGED connecting
       ELSE /\ CatchAndRelease(i)
            /\ UNCHANGED sessionDir
    /\ UNCHANGED <<activeSockets, socketCreationTime, sessions, numbers,
                   socks, clock, nextCreds, retryChain>>
    /\ lastUpdate' = NoUpdate
    /\ Quiet

\* await fs.remove(sessionDir) returns, or throws into the catch
ConnectRemoveDir(i, ok) ==
    /\ i \in DOMAIN calls
    /\ calls[i].pc = "removeDir"
    /\ IF ok
       THEN /\ sessionDir' = [sessionDir EXCEPT
                                 ![TenantOf(i)] = LocalSession(FALSE, NoSession)]
            /\ calls' = [calls EXCEPT ![i].pc = "makeSocket"]
            /\ UNCHANGED connecting
       ELSE /\ CatchAndRelease(i)
            /\ UNCHANGED sessionDir
    /\ UNCHANGED <<activeSockets, socketCreationTime, sessions, numbers,
                   socks, clock, nextCreds, retryChain>>
    /\ lastUpdate' = NoUpdate
    /\ Quiet

(* inconnuboyPair, after useMultiFileAuthState: makeWASocket to the end *)

\* process.on('uncaughtException'): logs, and restarts under PM2
UncaughtException(e) == e.PM2_NAME

\* restartPending after a handler of number t ended; rejected: it left a
\* rejected promise that nothing handles; raised: the runtime raises the
\* unhandled rejection as an uncaught exception (or only warns of it)
AfterRejection(t, rejected, raised) ==
    IF rejected /\ raised /\ UncaughtException(env) THEN t ELSE restartPending

\* the creation time left unset
RegisterTime_Skip(times, t, now) == times

\* socketCreationTime.set(number, Date.now())
RegisterTime(times, t, now) == [times EXCEPT ![t] = now]

\* activeSockets.set(number, conn)
RegisterSocket(reg, t, conn) == [reg EXCEPT ![t] = conn]

\* a pairing code asked for whatever the lookup returned
UsePairingCode_Always(existingSession) == TRUE

\* usePairingCode: !existingSession
UsePairingCode(existingSession) == existingSession = NoSession

\* if (!existingSession) setTimeout(...) else if (res && !res.headersSent) res.json(reconnecting)
AnswerRestore(call) ==
    IF call.existingSession = NoSession THEN call ELSE Respond(call, "reconnecting")

\* the registrations of inconnuboyPair that throw into its catch when they
\* fail, in the order they run: store.bind (352), the conn.ev.on of
\* setupAutoRestart (189), and the conn.ev.on of creds.update (415), of
\* connection.update (425), of call (465) and of messages.upsert (492; the
\* conn.ev.on of messages.update at 485 leaves the same listeners of these)
SetupSteps == <<"bind", "autoRestart", "creds", "open", "call", "upsert">>

StepOf(step) == CHOOSE n \in DOMAIN SetupSteps : SetupSteps[n] = step

\* what fails from useMultiFileAuthState on: nothing; useMultiFileAuthState
\* ("before"), which then has made no directory; makeWASocket ("make");
\* one of the registrations above, after the socket is registered; or the
\* conn.ev.on of setupMessageHandlers or of setupCallHandlers, which are
\* async and called without await
ThrowFaults == { SetupSteps[n] : n \in DOMAIN SetupSteps }
SetupFaults == {"messages", "calls"}
CaughtFaults == {"none", "before", "bind"}
SocketFaults == {"none", "before", "make"} \cup ThrowFaults \cup SetupFaults

\* what is thrown in an async setup function rejects the promise it
\* returned, which nothing awaits: the catch of inconnuboyPair does not see
\* it
SetupRejection(fault) == IF fault \in SetupFaults THEN fault ELSE "none"

\* the registration at which the setup stopped
StoppedAt(fault) == IF fault \in ThrowFaults THEN fault ELSE "none"

\* the setup went past step
Reached(stopped, step) ==
    IF stopped = "none" THEN TRUE ELSE StepOf(step) < StepOf(stopped)

\* the listener a registration of the setup attached is on the socket: the
\* setup went past the registration (for the two async setup functions,
\* past store.bind with no rejection) and removeAllListeners was not called
Attached(sock, listener) ==
    /\ sock.listeners
    /\ IF listener \in SetupFaults
       THEN Reached(sock.stopped, "bind") /\ sock.setupRejected # listener
       ELSE Reached(sock.stopped, listener)

\* the socket as inconnuboyPair leaves it: the pairing timer is started
\* (385) after setupAutoRestart and before the conn.ev.on of creds.update
NewSock(existingSession, fault) ==
    [NoSock EXCEPT
        !.conn = "connecting",
        !.listeners = Reached(StoppedAt(fault), "bind"),
        !.usePairingCode = UsePairingCode(existingSession),
        !.pairTimer = IF /\ UsePairingCode(existingSession)
                         /\ Reached(StoppedAt(fault), "autoRestart")
                      THEN "pending" ELSE "none",
        !.setupRejected = SetupRejection(fault),
        !.stopped = StoppedAt(fault)]

\* the invocation resumes after useMultiFileAuthState, which has made the
\* session directory, and runs to its return
ConnectMakeSocket(i, fault) ==
    LET t == TenantOf(i)
        answered == IF Reached(StoppedAt(fault), "autoRestart")
                    THEN AnswerRestore(calls[i]) ELSE calls[i]
    IN
    /\ i \in DOMAIN calls
    /\ calls[i].pc = "makeSocket"
    /\ IF fault \in {"before", "make"}
       THEN /\ CatchAndRelease(i)
            /\ sessionDir' = IF fault = "before" THEN sessionDir
                             ELSE [sessionDir EXCEPT ![t].dir = TRUE]
            /\ UNCHANGED <<activeSockets, socketCreationTime, clock, socks>>
       ELSE /\ socketCreationTime' = RegisterTime(socketCreationTime, t, clock)
            /\ activeSockets' = RegisterSocket(activeSockets, t, i)
            /\ clock' = clock + 1
            /\ sessionDir' = [sessionDir EXCEPT ![t].dir = TRUE]
            /\ socks' = [socks EXCEPT
                           ![i] = NewSock(calls[i].existingSession, fault)]
            /\ calls' = [calls EXCEPT ![i] =
                           IF fault \in ThrowFaults THEN Caught(answered)
                           ELSE [answered EXCEPT
                                    !.pc = "done", !.exit = "registered",
                                    !.released = TRUE]]
            /\ connecting' = Finally(connecting, TRUE, t)
    /\ \E raised \in BOOLEAN :
          restartPending' = AfterRejection(t, SetupRejection(fault) # "none", raised)
    /\ UNCHANGED <<sessions, numbers, nextCreds, retryChain>>
    /\ UNCHANGED <<discs, env, pending, otps, userConfig, issued, verifies,
                   fleet, requests>>
    /\ lastUpdate' = NoUpdate
    /\ lastSave' = NoSave
    /\ lastDispatch' = NoDispatch

\* the failure of requestPairingCode not caught in the task
PairingOutcome_Uncaught(ok) == IF ok THEN "new_pairing" ELSE "escaped"

\* try { code = await conn.requestPairingCode(...) ... } catch (err) { ... }
PairingOutcome(ok) == IF ok THEN "new_pairing" ELSE "pairing_error"

\* the setTimeout callback: delay, conn.requestPairingCode, res.json
PairingTimer(i, ok) ==
    LET result == PairingOutcome(ok) IN
    /\ i \in DOMAIN calls
    /\ socks[i].pairTimer = "pending"
    /\ socks' = [socks EXCEPT ![i].pairTimer = "fired", ![i].pairing = result]
    /\ calls' = IF result = "escaped" THEN calls
                ELSE [calls EXCEPT ![i] = Respond(@, result)]
    /\ UNCHANGED <<activeSockets, socketCreationTime, connecting, sessions,
                   numbers, sessionDir, clock, nextCreds, retryChain>>
    /\ lastUpdate' = NoUpdate
    /\ Quiet

---------------------------------------------------------------------------
(* creds.update listener *)

\* the blob of the next creds.update: none was stored or written before
FreshCreds == nextCreds + 1

Alive(i) == socks[i].conn \in {"connecting", "open"}

\* a creds.update event, while fewer than max blobs were made: the
\* listener calls saveCreds(), which writes the blob of the event to
\* creds.json when the session directory is there, and awaits it
CredsUpdateUpTo(i, max) ==
    /\ i \in DOMAIN calls
    /\ Alive(i) /\ Attached(socks[i], "creds")
    /\ nextCreds <= max
    /\ sessionDir' = IF sessionDir[TenantOf(i)].dir
                     THEN [sessionDir EXCEPT ![TenantOf(i)].creds = FreshCreds]
                     ELSE sessionDir
    /\ socks' = [socks EXCEPT ![i].savingCreds = @ + 1]
    /\ nextCreds' = nextCreds + 1
    /\ UNCHANGED <<activeSockets, socketCreationTime, connecting, sessions,
                   numbers, calls, clock, retryChain>>
    /\ lastUpdate' = NoUpdate
    /\ Quiet

\* a listener resumes after await saveCreds(): creds =
\* JSON.parse(fs.readFileSync(creds.json)), the blob the file holds now,
\* and saveSessionToMongoDB is called with it: one more call of it is
\* pending.  With no file saveCreds has rejected or readFileSync throws, out
\* of the listener, which has no try: an unhandled rejection (raised: the
\* runtime raises it as an uncaught exception).
CredsRead(i, raised) ==
    LET file == sessionDir[TenantOf(i)].creds IN
    /\ i \in DOMAIN calls
    /\ socks[i].savingCreds > 0
    /\ socks' = [socks EXCEPT
                   ![i].savingCreds = @ - 1,
                   ![i].credsPc = IF file = NoSession THEN @
                                  ELSE @ (+) SetToBag({file}),
                   ![i].readFailed = @ \/ file = NoSession]
    /\ restartPending' = AfterRejection(TenantOf(i), file = NoSession, raised)
    /\ file # NoSession => ~raised
    /\ UNCHANGED <<activeSockets, socketCreationTime, connecting, sessions,
                   numbers, sessionDir, calls, clock, nextCreds, retryChain>>
    /\ UNCHANGED <<discs, env, pending, otps, userConfig, issued, verifies,
                   fleet, requests>>
    /\ lastUpdate' = NoUpdate
    /\ lastSave' = NoSave
    /\ lastDispatch' = NoDispatch

\* saveSessionToMongoDB(number, creds): the document is written, or the
\* write fails and the promise of the call rejects
saveSessionToMongoDB(ok) == IF ok THEN "saved" ELSE "thrown"

\* the listener has no try: what saveSessionToMongoDB throws leaves it
CredsListenerExit(result) ==
    IF result = "thrown" THEN "escaped" ELSE "updated"

\* one pending await saveSessionToMongoDB(sanitizedNumber, creds) ends: it
\* returns, and inconnuLog(...); or it throws, out of the listener, an
\* unhandled rejection
SaveSession(i, creds, ok, raised) ==
    LET result == saveSessionToMongoDB(ok)
        exit == CredsListenerExit(result)
    IN
    /\ i \in DOMAIN calls
    /\ BagIn(creds, socks[i].credsPc)
    /\ sessions' = IF result = "saved"
                   THEN [sessions EXCEPT ![TenantOf(i)] = creds]
                   ELSE sessions
    /\ socks' = [socks EXCEPT ![i].credsPc = @ (-) SetToBag({creds}),
                              ![i].saveFailed = @ \/ result # "saved"]
    /\ restartPending' = AfterRejection(TenantOf(i), exit = "escaped", raised)
    /\ exit # "escaped" => ~raised
    /\ UNCHANGED <<activeSockets, socketCreationTime, connecting, numbers,
                   sessionDir, calls, clock, nextCreds, retryChain>>
    /\ lastUpdate' = NoUpdate
    /\ lastSave' = [call |-> i, creds |-> creds, result |-> result,
                    exit |-> exit]
    /\ lastDispatch' = NoDispatch
    /\ UNCHANGED <<discs, env, pending, otps, userConfig, issued, verifies,
                   fleet, requests>>

---------------------------------------------------------------------------
(* connection.update listeners: setupAutoRestart and the one of            *)
(* inconnuboyPair                                                          *)

\* if (connection === 'open') restartAttempts = 0
OpenResetAttempts(restartAttempts) == 0

\* an open event: the listener of setupAutoRestart resets the counter, the
\* one of inconnuboyPair calls addNumberToMongoDB
ConnectionOpen(i) ==
    /\ i \in DOMAIN calls
    /\ socks[i].conn = "connecting" /\ Attached(socks[i], "autoRestart")
    /\ socks' = [socks EXCEPT
                   ![i].conn = "open",
                   ![i].restartAttempts = OpenResetAttempts(@),
                   ![i].openPc = IF Attached(socks[i], "open") THEN "addNumber"
                                 ELSE "none"]
    /\ retryChain' = [retryChain EXCEPT ![TenantOf(i)] = 0]
    /\ UNCHANGED <<activeSockets, socketCreationTime, connecting, sessions,
                   numbers, sessionDir, calls, clock, nextCreds>>
    /\ lastUpdate' = [call |-> i, connection |-> "open", lastDisconnect |-> NoReason]
    /\ Quiet

\* await addNumberToMongoDB(sanitizedNumber) ends; a number with no stored
\* session goes on to await conn.sendMessage of the welcome message.  The
\* listener has no try: a rejected addNumberToMongoDB leaves the roster as
\* it was and is an unhandled rejection
AddNumber(i, ok, raised) ==
    /\ i \in DOMAIN calls
    /\ socks[i].openPc = "addNumber"
    /\ numbers' = IF ok THEN numbers \cup {TenantOf(i)} ELSE numbers
    /\ socks' = [socks EXCEPT
                   ![i].openPc = IF ok /\ calls[i].existingSession = NoSession
                                 THEN "welcome" ELSE "none"]
    /\ restartPending' = AfterRejection(TenantOf(i), ~ok, raised)
    /\ ok => ~raised
    /\ UNCHANGED <<activeSockets, socketCreationTime, connecting, sessions,
                   sessionDir, calls, clock, nextCreds, retryChain>>
    /\ UNCHANGED <<discs, env, pending, otps, userConfig, issued, verifies,
                   fleet, requests>>
    /\ lastUpdate' = NoUpdate
    /\ lastSave' = NoSave
    /\ lastDispatch' = NoDispatch

\* await conn.sendMessage(userJid, ...) of the welcome message ends, and the
\* listener with it; a rejection is an unhandled rejection
Welcome(i, ok, raised) ==
    /\ i \in DOMAIN calls
    /\ socks[i].openPc = "welcome"
    /\ socks' = [socks EXCEPT ![i].openPc = "none"]
    /\ restartPending' = AfterRejection(TenantOf(i), ~ok, raised)
    /\ ok => ~raised
    /\ UNCHANGED <<activeSockets, socketCreationTime, connecting, sessions,
                   numbers, sessionDir, calls, clock, nextCreds, retryChain>>
    /\ UNCHANGED <<discs, env, pending, otps, userConfig, issued, verifies,
                   fleet, requests>>
    /\ lastUpdate' = NoUpdate
    /\ lastSave' = NoSave
    /\ lastDispatch' = NoDispatch

\* statusCode === 401 || errorMessage?.includes('401')
IsManualUnlink(reason) ==
    reason.statusCode = 401 \/ Includes(reason.message, "401")

\* the message test alone, without statusCode === 408
isNormalError_MessageOnly(reason) ==
    Includes(reason.message, "QR refs attempts ended")

\* statusCode === 408 || errorMessage?.includes('QR refs attempts ended')
isNormalError(reason) ==
    reason.statusCode = 408 \/ Includes(reason.message, "QR refs attempts ended")

\* the entry kept
Unregister_Keep(reg, t) == reg

\* activeSockets.delete(number); socketCreationTime.delete(number)
Unregister(reg, t) == [reg EXCEPT ![t] = NoSocket]

\* what the close branch does before its first await
CloseBranch(reason, restartAttempts) ==
    IF IsManualUnlink(reason) THEN "unlink"
    ELSE IF isNormalError(reason) THEN "normal"
    ELSE IF restartAttempts < maxRestartAttempts THEN "restart"
    ELSE "exhausted"

\* the socket when the close branch of setupAutoRestart reaches its first
\* await, or returns
Closed(sock, reason) ==
    LET branch == CloseBranch(reason, sock.restartAttempts) IN
    [sock EXCEPT
        !.conn = "closed",
        !.restartAttempts = IF branch = "restart" THEN @ + 1 ELSE @,
        !.listeners = IF branch = "restart" THEN FALSE ELSE @,
        !.closePc = CASE branch = "unlink" -> "deleteSession"
                      [] branch = "normal" -> "normal"
                      [] branch = "restart" -> "delay"
                      [] OTHER -> "exhausted"]

ConnectionClose(i, reason) ==
    LET t == TenantOf(i)
        branch == CloseBranch(reason, socks[i].restartAttempts)
    IN
    /\ i \in DOMAIN calls
    /\ Alive(i) /\ Attached(socks[i], "autoRestart")
    /\ socks' = [socks EXCEPT ![i] = Closed(@, reason)]
    /\ activeSockets' = IF branch \in {"unlink", "restart"}
                        THEN Unregister(activeSockets, t) ELSE activeSockets
    /\ socketCreationTime' = IF branch \in {"unlink", "restart"}
                             THEN Unregister(socketCreationTime, t)
                             ELSE socketCreationTime
    /\ retryChain' = IF branch = "restart"
                     THEN [retryChain EXCEPT ![t] = @ + 1] ELSE retryChain
    /\ UNCHANGED <<connecting, sessions, numbers, sessionDir, calls, clock,
                   nextCreds>>
    /\ lastUpdate' = [call |-> i, connection |-> "close", lastDisconnect |-> reason]
    /\ Quiet

\* await deleteSessionFromMongoDB(sanitizedNumber) ends; when it throws,
\* the listener, which has no try, ends there with an unhandled rejection:
\* removeNumberFromMongoDB and removeAllListeners never run
UnlinkDeleteSession(i, ok, raised) ==
    /\ i \in DOMAIN calls
    /\ socks[i].closePc = "deleteSession"
    /\ sessions' = IF ok THEN [sessions EXCEPT ![TenantOf(i)] = NoSession]
                   ELSE sessions
    /\ socks' = [socks EXCEPT ![i].closePc = IF ok THEN "removeNumber"
                                             ELSE "unlinkFailed"]
    /\ restartPending' = AfterRejection(TenantOf(i), ~ok, raised)
    /\ ok => ~raised
    /\ UNCHANGED <<activeSockets, socketCreationTime, connecting, numbers,
                   sessionDir, calls, clock, nextCreds, retryChain>>
    /\ UNCHANGED <<discs, env, pending, otps, userConfig, issued, verifies,
                   fleet, requests>>
    /\ lastUpdate' = NoUpdate
    /\ lastSave' = NoSave
    /\ lastDispatch' = NoDispatch

\* await removeNumberFromMongoDB(sanitizedNumber) ends, and
\* socket.ev.removeAllListeners(); when it throws, the listener ends there
\* with an unhandled rejection and the listeners stay
UnlinkRemoveNumber(i, ok, raised) ==
    /\ i \in DOMAIN calls
    /\ socks[i].closePc = "removeNumber"
    /\ numbers' = IF ok THEN numbers \ {TenantOf(i)} ELSE numbers
    /\ socks' = IF ok
                THEN [socks EXCEPT ![i].closePc = "unlinked",
                                   ![i].listeners = FALSE]
                ELSE [socks EXCEPT ![i].closePc = "unlinkFailed"]
    /\ restartPending' = AfterRejection(TenantOf(i), ~ok, raised)
    /\ ok => ~raised
    /\ UNCHANGED <<activeSockets, socketCreationTime, connecting, sessions,
                   sessionDir, calls, clock, nextCreds, retryChain>>
    /\ UNCHANGED <<discs, env, pending, otps, userConfig, issued, verifies,
                   fleet, requests>>
    /\ lastUpdate' = NoUpdate
    /\ lastSave' = NoSave
    /\ lastDispatch' = NoDispatch

\* await delay(10000); await inconnuboyPair(number, mockRes)
ReconnectUpTo(i, max) ==
    /\ i \in DOMAIN calls
    /\ Len(calls) < max
    /\ socks[i].closePc = "delay"
    /\ inconnuboyPairEntry(calls[i].number, "mock",
                           [socks EXCEPT ![i].closePc = "reconnected"])
    /\ UNCHANGED <<activeSockets, socketCreationTime, sessions, numbers,
                   sessionDir, clock, nextCreds, retryChain>>
    /\ lastUpdate' = NoUpdate
    /\ Quiet

---------------------------------------------------------------------------
(* router.get('/disconnect') *)

NewDisc(number, socket, pc, status) ==
    [number |-> number, socket |-> socket, pc |-> pc, status |-> status]

\* what socket.ws.close() does when it is called at 781: it throws; it
\* returns with the transport closed; it delivers the close event of the
\* transport to the listeners before it returns; or it returns a promise
\* that is pending while the transport closes
WsClose(how, reason) == [how |-> how, reason |-> reason]
WsCloses ==
    { WsClose(how, NoReason) : how \in {"throws", "returns", "pending"} }
    \cup { WsClose("event", reason) : reason \in CloseReasons }

\* the transport is closed; socket.ev.removeAllListeners()
CloseTransport(sock) == [sock EXCEPT !.conn = "closed", !.listeners = FALSE]

\* the request up to its first await that suspends: 404 for a number not in
\* activeSockets; 500 when socket.ws.close() throws; at await
\* socket.ws.close() when its promise is pending; else, the close event
\* handled by the listeners if it was delivered, the listeners are removed
\* and the number is unregistered, up to await removeNumberFromMongoDB
RouteDisconnectUpTo(number, closing, max) ==
    LET t == Sanitize(number)
        socket == activeSockets[t]
        heard == closing.how = "event"
        branch == CloseBranch(closing.reason, socks[socket].restartAttempts)
    IN
    /\ Len(discs) < max
    /\ heard => /\ socket # NoSocket
                /\ Alive(socket) /\ Attached(socks[socket], "autoRestart")
    /\ IF socket = NoSocket
       THEN /\ discs' = Append(discs, NewDisc(number, NoSocket, "done", 404))
            /\ UNCHANGED <<activeSockets, socketCreationTime, socks>>
       ELSE IF closing.how = "throws"
       THEN /\ discs' = Append(discs, NewDisc(number, socket, "done", 500))
            /\ UNCHANGED <<activeSockets, socketCreationTime, socks>>
       ELSE IF closing.how = "pending"
       THEN /\ discs' = Append(discs, NewDisc(number, socket, "ws.close", 0))
            /\ UNCHANGED <<activeSockets, socketCreationTime, socks>>
       ELSE /\ socks' = [socks EXCEPT ![socket] =
                           CloseTransport(IF heard THEN Closed(@, closing.reason)
                                          ELSE @)]
            /\ activeSockets' = Unregister(activeSockets, t)
            /\ socketCreationTime' = Unregister(socketCreationTime, t)
            /\ discs' = Append(discs, NewDisc(number, socket, "removeNumber", 0))
    /\ retryChain' = IF heard /\ branch = "restart"
                     THEN [retryChain EXCEPT ![t] = @ + 1] ELSE retryChain
    /\ lastUpdate' = IF heard
                     THEN [call |-> socket, connection |-> "close",
                           lastDisconnect |-> closing.reason]
                     ELSE NoUpdate
    /\ UNCHANGED <<connecting, sessions, numbers, sessionDir, calls, clock,
                   nextCreds>>
    /\ UNCHANGED <<env, restartPending, pending, otps, userConfig, issued,
                   verifies, fleet, requests>>
    /\ lastSave' = NoSave
    /\ lastDispatch' = NoDispatch

\* await socket.ws.close() returns: socket.ev.removeAllListeners() on the
\* socket the request took at 778, and the number is unregistered, up to
\* await removeNumberFromMongoDB; or the promise rejects: 500
DisconnectClosed(d, ok) ==
    LET t == Sanitize(discs[d].number) IN
    /\ d \in DOMAIN discs
    /\ discs[d].pc = "ws.close"
    /\ IF ok
       THEN /\ socks' = [socks EXCEPT ![discs[d].socket] = CloseTransport(@)]
            /\ activeSockets' = Unregister(activeSockets, t)
            /\ socketCreationTime' = Unregister(socketCreationTime, t)
            /\ discs' = [discs EXCEPT ![d].pc = "removeNumber"]
       ELSE /\ discs' = [discs EXCEPT ![d].pc = "done", ![d].status = 500]
            /\ UNCHANGED <<activeSockets, socketCreationTime, socks>>
    /\ UNCHANGED <<connecting, sessions, numbers, sessionDir, calls, clock,
                   nextCreds, retryChain>>
    /\ lastUpdate' = NoUpdate
    /\ UNCHANGED <<env, restartPending, pending, otps, userConfig, issued,
                   verifies, fleet, requests>>
    /\ lastSave' = NoSave
    /\ lastDispatch' = NoDispatch

\* await removeNumberFromMongoDB(sanitizedNumber); catch: 500
DisconnectRemoveNumber(d, ok) ==
    /\ d \in DOMAIN discs
    /\ discs[d].pc = "removeNumber"
    /\ numbers' = IF ok THEN numbers \ {Sanitize(discs[d].number)} ELSE numbers
    /\ discs' = IF ok THEN [discs EXCEPT ![d].pc = "deleteSession"]
                      ELSE [discs EXCEPT ![d].pc = "done", ![d].status = 500]
    /\ UNCHANGED <<activeSockets, socketCreationTime, connecting, sessions,
                   sessionDir, calls, socks, clock, nextCreds, retryChain>>
    /\ lastUpdate' = NoUpdate
    /\ UNCHANGED <<env, restartPending, pending, otps, userConfig, issued,
                   verifies, fleet, requests>>
    /\ lastSave' = NoSave
    /\ lastDispatch' = NoDispatch

\* await deleteSessionFromMongoDB(sanitizedNumber); res.json(success); catch: 500
DisconnectDeleteSession(d, ok) ==
    /\ d \in DOMAIN discs
    /\ discs[d].pc = "deleteSession"
    /\ sessions' = IF ok THEN [sessions EXCEPT ![Sanitize(discs[d].number)] = NoSession]
                         ELSE sessions
    /\ discs' = [discs EXCEPT ![d].pc = "done",
                              ![d].status = IF ok THEN 200 ELSE 500]
    /\ UNCHANGED <<activeSockets, socketCreationTime, connecting, numbers,
                   sessionDir, calls, socks, clock, nextCreds, retryChain>>
    /\ lastUpdate' = NoUpdate
    /\ UNCHANGED <<env, restartPending, pending, otps, userConfig, issued,
                   verifies, fleet, requests>>
    /\ lastSave' = NoSave
    /\ lastDispatch' = NoDispatch

---------------------------------------------------------------------------
(* messages.upsert listener of inconnuboyPair.  Strings are sequences of   *)
(* characters.                                                             *)

\* config.PREFIX
PREFIX == <<".">>

NoText == <<>>

\* String.prototype.toLowerCase, on the letters the messages use
Lower(c) == IF c = "A" THEN "a" ELSE c
ToLowerCase(str) == [k \in 1 .. Len(str) |-> Lower(str[k])]

StartsWith(str, p) == Len(str) >= Len(p) /\ SubSeq(str, 1, Len(p)) = p
Slice(str, n) == SubSeq(str, n + 1, Len(str))

RECURSIVE TrimStart(_)
TrimStart(str) ==
    IF str # <<>> /\ Head(str) = " " THEN TrimStart(Tail(str)) ELSE str

RECURSIVE TrimEnd(_)
TrimEnd(str) ==
    IF str # <<>> /\ str[Len(str)] = " "
    THEN TrimEnd(SubSeq(str, 1, Len(str) - 1)) ELSE str

Trim(str) == TrimEnd(TrimStart(str))

\* str.split(" ")[0]
RECURSIVE SplitFirst(_)
SplitFirst(str) ==
    IF str = <<>> \/ Head(str) = " " THEN <<>>
    ELSE <<Head(str)>> \o SplitFirst(Tail(str))

\* the pattern of a descriptor that was registered without one
NoPattern == <<"undefined">>

\* events.commands: the descriptors the plugins registered, in order
Commands ==
    << [pattern |-> <<"a">>,   alias |-> {},                 on |-> "none"],
       [pattern |-> <<"b">>,   alias |-> {<<"a">>, <<"c">>}, on |-> "none"],
       [pattern |-> <<"A">>,   alias |-> {},                 on |-> "none"],
       [pattern |-> NoPattern, alias |-> {},                 on |-> "image"],
       [pattern |-> NoPattern, alias |-> {},                 on |-> "body"] >>

CommandIds == DOMAIN Commands

\* the messages: hasMessage (mek.message is set), remoteJid, the content
\* type, the text (of a conversation or extended text) or caption (of an
\* image), whether the sender is an owner, and whether mek.q is set
Mek(hasMessage, remoteJid, type, text, isOwner) ==
    [hasMessage |-> hasMessage, remoteJid |-> remoteJid, type |-> type,
     text |-> text, isOwner |-> isOwner, q |-> FALSE]

Texts ==
    { <<".", "a">>, <<".", "A">>, <<".", "b">>, <<".", "c">>,
      <<".", " ", "a", " ", "b">>, <<"a">>, <<".">> }

Messages ==
    { Mek(TRUE, "user", "conversation", text, FALSE) : text \in Texts }
    \cup { Mek(TRUE, "user", "conversation", <<".", "a">>, TRUE),
           Mek(TRUE, "user", "extendedTextMessage", <<".", "b">>, FALSE),
           Mek(TRUE, "user", "imageMessage", <<".", "a">>, FALSE),
           Mek(TRUE, "user", "imageMessage", NoText, TRUE),
           Mek(TRUE, "user", "stickerMessage", NoText, FALSE),
           Mek(TRUE, "120@g.us", "conversation", <<".", "b">>, FALSE),
           Mek(TRUE, "status@broadcast", "conversation", <<".", "a">>, FALSE),
           Mek(FALSE, "status@broadcast", "conversation", NoText, FALSE),
           Mek(FALSE, "user", "conversation", NoText, FALSE) }

\* from.endsWith('@g.us'), over the chats of Messages
isGroup(from) == from \in {"120@g.us"}

\* what goes wrong in one step of a listener: nothing; the call the
\* listener awaited rejects, which is its getUserConfigFromMongoDB
\* ("config"), the call stat of the protocol client ("client") or the
\* incrementStats of counter stat ("stats"); or the handler of descriptor
\* id, invoked in the step, throws or returns a promise that rejects
Fault(kind, stat, id) == [kind |-> kind, stat |-> stat, id |-> id]
NoFault == Fault("none", "none", 0)

\* the awaited calls of the protocol client: readMessages (513, 532),
\* sendMessage (539, 548, 171, 474), groupMetadata (593),
\* sendPresenceUpdate (143, 152, 603, 604), rejectCall (170, 473)
ClientCalls ==
    {"read", "view", "like", "reply", "groupMetadata", "composing",
     "recording", "rejectCall", "rejectMessage"}

\* the counters of incrementStats
Counters == {"commandsUsed", "messagesReceived", "groupsInteracted"}

Faults ==
    { NoFault, Fault("config", "none", 0) }
    \cup { Fault("client", call, 0) : call \in ClientCalls }
    \cup { Fault("stats", stat, 0) : stat \in Counters }
    \cup { Fault(kind, "none", id) : kind \in {"throws", "rejects"}, id \in CommandIds }

\* body: the conversation, or the text of an extended text, or ''
Body(mek) ==
    IF mek.type \in {"conversation", "extendedTextMessage"} THEN mek.text
    ELSE NoText

isCmd(body) == StartsWith(body, PREFIX)

\* body.slice(config.PREFIX.length).trim().split(" ")[0].toLowerCase()
cmdName(body) == ToLowerCase(SplitFirst(Trim(Slice(body, Len(PREFIX)))))

\* the least id in ids (0: none): Array.prototype.find
First(ids) == IF ids = {} THEN 0 ELSE CHOOSE k \in ids : \A j \in ids : k <= j

\* events.commands.find(pattern === cmdName) || events.commands.find(alias.includes(cmdName))
FindCommand(name) ==
    LET byPattern == First({ k \in CommandIds : Commands[k].pattern = name })
    IN IF byPattern # 0 THEN byPattern
       ELSE First({ k \in CommandIds : name \in Commands[k].alias })

\* sms(conn, mek) sets mek.type to the content type of the message
MekType(mek) == mek.type

\* the trigger of descriptor k in the Execute Events pass
PassiveMatches(k, mek, body) ==
    LET on == Commands[k].on IN
    \/ body # NoText /\ on = "body"
    \/ mek.q /\ on = "text"
    \/ on \in {"image", "photo"} /\ MekType(mek) = "imageMessage"
    \/ on = "sticker" /\ MekType(mek) = "stickerMessage"

\* how the invocation of the handler of descriptor k ends
HandlerOutcome(k, fault) ==
    IF fault.kind \in {"throws", "rejects"} /\ fault.id = k THEN fault.kind
    ELSE "ok"

\* incrementStats(number, stat): the counter is incremented, or the write
\* fails and the promise of the call rejects
incrementStats(ok) == IF ok THEN "counted" ELSE "thrown"

\* the counters that were incremented
Counted(stat, result) == IF result = "counted" THEN <<stat>> ELSE <<>>

\* await incrementStats(...) inside the try of the listener: what it throws
\* goes to the catch of the listener
StatsAbort(result) == result = "thrown"

\* getUserConfigFromMongoDB(number): the flags of the configuration stored
\* for the number, or the defaults of config.js when none is stored
ConfigFlags(config) ==
    CASE config = "c1" ->
           [READ_MESSAGE |-> TRUE, AUTO_VIEW_STATUS |-> FALSE,
            AUTO_LIKE_STATUS |-> FALSE, AUTO_STATUS_REPLY |-> TRUE,
            AUTO_TYPING |-> TRUE, AUTO_RECORDING |-> FALSE, ANTI_CALL |-> TRUE]
      [] config = "c2" ->
           [READ_MESSAGE |-> FALSE, AUTO_VIEW_STATUS |-> FALSE,
            AUTO_LIKE_STATUS |-> FALSE, AUTO_STATUS_REPLY |-> FALSE,
            AUTO_TYPING |-> FALSE, AUTO_RECORDING |-> TRUE, ANTI_CALL |-> FALSE]
      [] OTHER ->
           [READ_MESSAGE |-> FALSE, AUTO_VIEW_STATUS |-> TRUE,
            AUTO_LIKE_STATUS |-> TRUE, AUTO_STATUS_REPLY |-> FALSE,
            AUTO_TYPING |-> FALSE, AUTO_RECORDING |-> FALSE, ANTI_CALL |-> FALSE]

\* the flags kept from the first event
FreshFlags_Cached(store, t) == ConfigFlags(NoConfig)

\* const userConfig = await getUserConfigFromMongoDB(number), in every listener
FreshFlags(store, t) == ConfigFlags(store[t])

\* what a flag adds to the automatic behaviours
When(flag, behaviour) == IF flag THEN <<behaviour>> ELSE <<>>

\* if (userConfig.READ_MESSAGE === 'true') await conn.readMessages([mek.key])
AutoRead(flags) == When(flags.READ_MESSAGE, "read")

\* the status branch: auto view, auto like, auto reply
StatusAutomation(flags) ==
    When(flags.AUTO_VIEW_STATUS, "view")
    \o When(flags.AUTO_LIKE_STATUS, "like")
    \o When(flags.AUTO_STATUS_REPLY, "reply")

\* sendPresenceUpdate('composing'), sendPresenceUpdate('recording')
AutoPresence(flags) ==
    When(flags.AUTO_TYPING, "composing") \o When(flags.AUTO_RECORDING, "recording")

\* the call listeners, for an offer: rejectCall and the reject message
AntiCall(flags) ==
    IF flags.ANTI_CALL THEN <<"rejectCall", "rejectMessage">> ELSE <<>>

\* if (!msg.message || msg.key.remoteJid === 'status@broadcast') return
MessageHandlersReturns(mek) ==
    IF ~mek.hasMessage THEN TRUE ELSE mek.remoteJid = "status@broadcast"

\* if (!mek.message) return
UpsertReturns(mek) == ~mek.hasMessage

\* if (config.WORK_TYPE === 'private' && !isOwner) return, for a command
\* that the lookup found
PrivateReturn(mek, workType) ==
    /\ isCmd(Body(mek))
    /\ FindCommand(cmdName(Body(mek))) # 0
    /\ workType = "private"
    /\ ~mek.isOwner

\* the calls a listener awaits for the event that holds mek, in order,
\* when none of them fails: getUserConfigFromMongoDB first, then those
\* that the flags it read and the message ask for
Plan(listener, mek, workType, flags) ==
    <<"config">> \o
    CASE listener = "messages" -> AutoPresence(flags)
      [] listener \in {"calls", "call"} -> AntiCall(flags)
      [] mek.remoteJid = "status@broadcast" ->
            AutoRead(flags) \o StatusAutomation(flags)
      [] OTHER ->
            AutoRead(flags)
            \o (IF isGroup(mek.remoteJid) THEN <<"groupMetadata">> ELSE <<>>)
            \o AutoPresence(flags)
            \o (IF isCmd(Body(mek)) THEN <<"commandsUsed">> ELSE <<>>)
            \o (IF PrivateReturn(mek, workType) THEN <<>>
                ELSE <<"messagesReceived">>
                     \o (IF isGroup(mek.remoteJid) THEN <<"groupsInteracted">>
                         ELSE <<>>))

\* a listener of socket i at its await getUserConfigFromMongoDB, for the
\* event that holds mek (NoMek: a call).  pc: the call of its plan that it
\* awaits; flags: its const userConfig; the other fields: what it has done
\* so far
Suspended(i, listener, mek) ==
    [NoDispatch EXCEPT !.call = i, !.listener = listener, !.mek = mek,
                       !.pc = "config"]

\* the flags of listener p once the call it awaits has ended: read is what
\* getUserConfigFromMongoDB answers now
FlagsOf(p, read) == IF p.pc = "config" THEN read ELSE p.flags

\* the plan of listener p once the call it awaits has ended
PlanOf(p, workType, read) == Plan(p.listener, p.mek, workType, FlagsOf(p, read))

\* the last call of plan, and the one that follows call in it
Last(plan) == plan[Len(plan)]
Following(plan, call) == plan[1 + CHOOSE n \in DOMAIN plan : plan[n] = call]

\* the descriptors whose handlers listener p invokes when the call it
\* awaits has resolved, before its next await or its end: the one of the
\* command lookup after incrementStats('commandsUsed') (658-676), those of
\* the Execute Events pass after the last incrementStats (685-692)
Invoked(p, workType, read) ==
    IF p.listener # "upsert" \/ p.mek.remoteJid = "status@broadcast" THEN {}
    ELSE IF p.pc = "commandsUsed"
    THEN IF PrivateReturn(p.mek, workType) THEN {}
         ELSE {FindCommand(cmdName(Body(p.mek)))} \ {0}
    ELSE IF p.pc = Last(PlanOf(p, workType, read))
    THEN { k \in CommandIds : PassiveMatches(k, p.mek, Body(p.mek)) }
    ELSE {}

\* fault is something that can go wrong in the next step of listener p
Applies(p, fault, workType, read) ==
    \/ fault.kind = "none"
    \/ fault.kind = "config" /\ p.pc = "config"
    \/ fault.kind \in {"client", "stats"} /\ fault.stat = p.pc
    \/ fault.kind \in {"throws", "rejects"}
          /\ fault.id \in Invoked(p, workType, read)

(* Listener p when the call it awaits has ended under fault: at its next   *)
(* await (outcome "none"), or at its end.  flags: its userConfig; plan:    *)
(* the calls it awaits; invoked: the descriptors whose handlers it invokes *)
(* in the step.  The listener of setupMessageHandlers  *)
(* has its getUserConfigFromMongoDB in no try and each presence update in  *)
(* a try of its own; the call listeners and the messages.upsert listener   *)
(* of inconnuboyPair have their whole body in a try, so what an awaited    *)
(* call throws ends them in their catch (callError, handlerError), but for *)
(* groupMetadata, which has a try of its own.  A handler that throws is    *)
(* caught at 674 (PLUGIN ERROR) when the lookup invoked it; a promise it   *)
(* returns rejected, and what it throws in the async callback of the       *)
(* Execute Events pass, is handled by nothing.                             *)
Proceed(p, fault, flags, plan, invoked) ==
    LET call == p.pc
        last == call = Last(plan)
        failed == fault.kind \in {"config", "client", "stats"}
        result == incrementStats(~failed)
        ByLookup(k) == call = "commandsUsed" /\ k \in invoked
        ByTrigger(k) == call # "commandsUsed" /\ k \in invoked
        Rejects(k) == IF ByLookup(k) THEN HandlerOutcome(k, fault) = "rejects"
                      ELSE HandlerOutcome(k, fault) # "ok"
        ended == IF p.listener = "messages" THEN "presence"
                 ELSE IF p.listener \in {"calls", "call"} THEN "call"
                 ELSE IF p.mek.remoteJid = "status@broadcast" THEN "status"
                 ELSE IF call = "commandsUsed" THEN "private"
                 ELSE "done"
        aborted ==
            CASE p.listener = "messages" ->
                   IF fault.kind = "config" THEN "escaped" ELSE "none"
              [] p.listener \in {"calls", "call"} ->
                   IF failed THEN "callError" ELSE "none"
              [] OTHER ->
                   IF \/ fault.kind = "config"
                      \/ fault.kind = "client" /\ call # "groupMetadata"
                      \/ call \in Counters /\ StatsAbort(result)
                   THEN "handlerError"
                   ELSE "none"
        outcome == IF aborted # "none" THEN aborted
                   ELSE IF last THEN ended ELSE "none"
    IN
    [p EXCEPT
       !.flags = IF fault.kind = "config" THEN @ ELSE flags,
       !.fault = IF fault.kind = "none" \/ call = "groupMetadata"
                 THEN @ ELSE fault.kind,
       !.auto = IF call \in ClientCalls \ {"groupMetadata"} /\ ~failed
                THEN Append(@, call) ELSE @,
       !.stats = IF call \in Counters THEN @ \o Counted(call, result) ELSE @,
       !.cmd = @ \o SelectSeq([k \in CommandIds |-> k], ByLookup),
       !.pluginError =
           \/ @
           \/ \E k \in CommandIds :
                 ByLookup(k) /\ HandlerOutcome(k, fault) = "throws",
       !.passive = @ \o SelectSeq([k \in CommandIds |-> k], ByTrigger),
       !.unhandled = @ + Cardinality({ k \in invoked : Rejects(k) })
                       + (IF aborted = "escaped" THEN 1 ELSE 0),
       !.outcome = outcome,
       !.pc = IF outcome = "none" THEN Following(plan, @) ELSE @]

\* listener p when the call it awaits has ended under fault;
\* getUserConfigFromMongoDB answers read (the call, and the handlers the
\* step invokes, are worked out once)
Continue(p, fault, workType, read) ==
    CHOOSE q \in
        { Proceed(p, fault, flags, plan, invoked) :
             flags \in {FlagsOf(p, read)},
             plan \in {PlanOf(p, workType, read)},
             invoked \in {IF fault.kind \in {"config", "client", "stats"} THEN {}
                          ELSE Invoked(p, workType, read)} } : TRUE

\* what a listener that ended leaves of its run
Ended(p) == p

\* the listener p from the call it awaits to its end, when fault is what
\* goes wrong wherever it can
RECURSIVE Run(_, _, _, _)
Run(p, fault, workType, read) ==
    LET q == Continue(p, IF Applies(p, fault, workType, read) THEN fault
                         ELSE NoFault,
                      workType, read)
    IN IF q.outcome # "none" THEN q ELSE Run(q, fault, workType, read)

\* the messages.upsert listener of inconnuboyPair from its await
\* getUserConfigFromMongoDB, which answers flags, to its end, under work
\* type workType: the automatic behaviours (auto), the handlers invoked by
\* the command lookup (cmd) and by the Execute Events pass (passive), the
\* counters incremented (stats), whether PLUGIN ERROR was logged, and the
\* promises left rejected with nothing to handle them
Dispatch(mek, fault, workType, flags) ==
    Run(Suspended(0, "upsert", mek), fault, workType, flags)

\* the events whose listeners are suspended
EventsInFlight == { <<p.call, p.mek>> : p \in pending }

\* the socket emits an event that holds mek, the listeners in heard are
\* attached and do not return at once: each calls getUserConfigFromMongoDB
Emit(i, mek, heard, max) ==
    /\ i \in DOMAIN calls
    /\ socks[i].conn = "open" /\ socks[i].listeners
    /\ <<i, mek>> \notin EventsInFlight
    /\ Cardinality(EventsInFlight) < max
    /\ pending' = pending \cup { Suspended(i, listener, mek) : listener \in heard }
    /\ UNCHANGED <<activeSockets, socketCreationTime, connecting, sessions,
                   numbers, sessionDir, calls, socks, clock, nextCreds,
                   retryChain, discs, env, restartPending, otps, userConfig,
                   issued, verifies, fleet, requests>>
    /\ lastUpdate' = NoUpdate
    /\ lastSave' = NoSave

\* one messages.upsert event of an open socket, for the listener of
\* setupMessageHandlers and the one of inconnuboyPair, those of the two that
\* are attached, each up to its return or to its await
\* getUserConfigFromMongoDB
UpsertUpTo(i, mek, max) ==
    /\ Emit(i, mek,
            { listener \in {"messages", "upsert"} :
                /\ Attached(socks[i], listener)
                /\ ~(IF listener = "messages" THEN MessageHandlersReturns(mek)
                     ELSE UpsertReturns(mek)) },
            max)
    /\ lastDispatch' =
          IF Attached(socks[i], "upsert") /\ UpsertReturns(mek)
          THEN [NoDispatch EXCEPT !.call = i, !.listener = "upsert",
                                  !.mek = mek, !.outcome = "ignored"]
          ELSE NoDispatch

\* one call event of an open socket, holding an offer, for the listener of
\* setupCallHandlers and the one of inconnuboyPair, those of the two that
\* are attached, each up to its await getUserConfigFromMongoDB
CallOfferUpTo(i, max) ==
    /\ Emit(i, NoMek,
            { listener \in {"calls", "call"} : Attached(socks[i], listener) },
            max)
    /\ lastDispatch' = NoDispatch

\* the call a suspended listener awaits ends, under fault, and the listener
\* runs to its next await or to its end; getUserConfigFromMongoDB answers
\* with what the store holds now.  raised: the runtime raises a promise
\* that the step left rejected as an uncaught exception
Resume(p, fault, raised) ==
    LET t == TenantOf(p.call)
        read == FreshFlags(userConfig, t)
    IN
    /\ p \in pending
    /\ Applies(p, fault, env.WORK_TYPE, read)
    /\ \E q \in {Continue(p, fault, env.WORK_TYPE, read)} :
          LET rejected == q.unhandled > p.unhandled IN
          /\ ~rejected => ~raised
          /\ pending' = (pending \ {p})
                           \cup (IF q.outcome = "none" THEN {q} ELSE {})
          /\ lastDispatch' = IF q.outcome = "none" THEN NoDispatch ELSE Ended(q)
          /\ restartPending' = AfterRejection(t, rejected, raised)
    /\ UNCHANGED <<activeSockets, socketCreationTime, connecting, sessions,
                   numbers, sessionDir, calls, socks, clock, nextCreds,
                   retryChain, discs, env, otps, userConfig, issued, verifies,
                   fleet, requests>>
    /\ lastUpdate' = NoUpdate
    /\ lastSave' = NoSave

\* the listener of setupMessageHandlers, from its await at 139 on
MessageHandlersResume(p, fault, raised) ==
    /\ p.listener = "messages"
    /\ Resume(p, fault, raised)

\* the messages.upsert listener of inconnuboyPair, from its await at 498 on
UpsertResume(p, fault, raised) ==
    /\ p.listener = "upsert"
    /\ Resume(p, fault, raised)

\* a call listener, from its await getUserConfigFromMongoDB on
CallResume(p, fault) ==
    /\ p.listener \in {"calls", "call"}
    /\ Resume(p, fault, FALSE)

\* the suspended listeners of socket i among listeners
Listening(i, listeners) ==
    { p \in pending : p.call = i /\ p.listener \in listeners }

\* a step of a suspended listener of socket i, under one of faults
MessageHandlersResumeOn(i, faults) ==
    \E p \in Listening(i, {"messages"}) :
       \E fault \in faults, raised \in BOOLEAN :
          MessageHandlersResume(p, fault, raised)

UpsertResumeOn(i, faults) ==
    \E p \in Listening(i, {"upsert"}) :
       \E fault \in faults, raised \in BOOLEAN : UpsertResume(p, fault, raised)

CallResumeOn(i, faults) ==
    \E p \in Listening(i, {"calls", "call"}) :
       \E fault \in faults : CallResume(p, fault)

\* pm2 restart: the process ends and starts anew; what was in memory is
\* lost, the requests that were not answered never are, and the timer of
\* autoReconnectFromMongoDB is set again
Pm2Restart ==
    /\ restartPending # NoNumber
    /\ restartPending' = NoNumber
    /\ pending' = {}
    /\ activeSockets' = [t \in Tenants |-> NoSocket]
    /\ socketCreationTime' = [t \in Tenants |-> 0]
    /\ connecting' = [t \in Tenants |-> FALSE]
    /\ retryChain' = [t \in Tenants |-> 0]
    /\ socks' = [i \in DOMAIN socks |->
                   [socks[i] EXCEPT
                       !.conn = IF @ = "none" THEN @ ELSE "closed",
                       !.listeners = FALSE, !.credsPc = EmptyBag,
                       !.savingCreds = 0,
                       !.openPc = "none",
                       !.pairTimer = IF @ = "pending" THEN "none" ELSE @,
                       !.closePc = IF @ \in {"deleteSession", "removeNumber", "delay"}
                                   THEN "none" ELSE @]]
    /\ calls' = [i \in DOMAIN calls |->
                   IF calls[i].pc = "done" THEN calls[i]
                   ELSE [calls[i] EXCEPT !.pc = "done", !.exit = "killed"]]
    /\ discs' = [d \in DOMAIN discs |-> [discs[d] EXCEPT !.pc = "done"]]
    /\ requests' = [q \in DOMAIN requests |-> [requests[q] EXCEPT !.pc = "done"]]
    /\ verifies' = [v \in DOMAIN verifies |-> [verifies[v] EXCEPT !.pc = "done"]]
    /\ fleet' = <<NewRun("auto")>>
    /\ UNCHANGED <<sessions, numbers, sessionDir, clock, nextCreds, env>>
    /\ UNCHANGED <<otps, userConfig, issued>>
    /\ lastUpdate' = NoUpdate
    /\ lastSave' = NoSave
    /\ lastDispatch' = NoDispatch

---------------------------------------------------------------------------
(* router.get('/update-config') and router.get('/verify-otp').  The store  *)
(* adapter of lib/database keeps one pending OTP for a number: a new one   *)
(* replaces it, a successful verification deletes it.                      *)

saveOTPToMongoDB(store, t, code, config, now, serial) ==
    [store EXCEPT ![t] = [code |-> code, config |-> config,
                          expires |-> now + OtpValidity, serial |-> serial]]

verifyOTPFromMongoDB(store, t, code, now) ==
    LET kept == store[t] IN
    IF kept = NoOtp \/ kept.code # code
    THEN [valid |-> FALSE, error |-> "invalid", config |-> NoConfig]
    ELSE IF now > kept.expires
    THEN [valid |-> FALSE, error |-> "expired", config |-> NoConfig]
    ELSE [valid |-> TRUE, error |-> "none", config |-> kept.config]

updateUserConfigInMongoDB(store, t, config) == [store EXCEPT ![t] = config]

\* every number taken to have a session
HasActiveSession_Any(socket) == TRUE

\* const socket = activeSockets.get(sanitizedNumber); if (!socket) 404
HasActiveSession(socket) == socket # NoSocket

\* the config parameter of a request: the JSON text of a configuration, no
\* text, or a text that JSON.parse rejects
ConfigStrings == Configs \cup {"", "{"}

NewRequest(number, config, code, serial, seen, pc, status) ==
    [number |-> number, config |-> config, code |-> code, serial |-> serial,
     seen |-> seen, saved |-> FALSE, pc |-> pc, status |-> status]

\* /update-config up to its await saveOTPToMongoDB: 400 for a missing
\* parameter or a config that does not parse, and nothing of the request is
\* kept; 404 for a number not in activeSockets; else the OTP is generated
RouteUpdateConfigUpTo(number, config, code, max) ==
    LET t == Sanitize(number) IN
    /\ Len(requests) < max
    /\ IF number = NoNumber \/ config \notin Configs
       THEN /\ requests' = Append(requests,
                   NewRequest(NoNumber, NoConfig, 0, 0, NoConfig, "done", 400))
            /\ UNCHANGED issued
       ELSE IF ~HasActiveSession(activeSockets[t])
       THEN /\ requests' = Append(requests,
                   NewRequest(number, config, 0, 0, userConfig[t], "done", 404))
            /\ UNCHANGED issued
       ELSE /\ requests' = Append(requests,
                   NewRequest(number, config, code, issued + 1, userConfig[t],
                              "saveOtp", 0))
            /\ issued' = issued + 1
    /\ UNCHANGED <<activeSockets, socketCreationTime, connecting, sessions,
                   numbers, sessionDir, calls, socks, clock, nextCreds,
                   retryChain, discs, env, restartPending, pending, otps,
                   userConfig, verifies, fleet>>
    /\ lastUpdate' = NoUpdate
    /\ lastSave' = NoSave
    /\ lastDispatch' = NoDispatch

\* await saveOTPToMongoDB(sanitizedNumber, otp, newConfig) ends.  It is in
\* no try: when it throws, the request is never answered and the rejection
\* is handled by nothing
UpdateConfigSaved(q, ok, raised) ==
    LET r == requests[q]
        t == Sanitize(r.number)
    IN
    /\ q \in DOMAIN requests
    /\ requests[q].pc = "saveOtp"
    /\ otps' = IF ok
               THEN saveOTPToMongoDB(otps, t, r.code, r.config, clock, r.serial)
               ELSE otps
    /\ requests' = [requests EXCEPT ![q].pc = IF ok THEN "send" ELSE "rejected",
                                    ![q].saved = ok]
    /\ restartPending' = AfterRejection(t, ~ok, raised)
    /\ ok => ~raised
    /\ UNCHANGED <<activeSockets, socketCreationTime, connecting, sessions,
                   numbers, sessionDir, calls, socks, clock, nextCreds,
                   retryChain, discs, env, pending, userConfig, issued,
                   verifies, fleet>>
    /\ lastUpdate' = NoUpdate
    /\ lastSave' = NoSave
    /\ lastDispatch' = NoDispatch

\* await socket.sendMessage(userJid, ...); res.json(otp_sent); catch: 500
UpdateConfigSend(q, ok) ==
    /\ q \in DOMAIN requests
    /\ requests[q].pc = "send"
    /\ requests' = [requests EXCEPT ![q].pc = "done",
                                    ![q].status = IF ok THEN 200 ELSE 500]
    /\ UNCHANGED <<activeSockets, socketCreationTime, connecting, sessions,
                   numbers, sessionDir, calls, socks, clock, nextCreds,
                   retryChain, discs, env, restartPending, pending, otps,
                   userConfig, issued, verifies, fleet>>
    /\ lastUpdate' = NoUpdate
    /\ lastSave' = NoSave
    /\ lastDispatch' = NoDispatch

\* a request of /verify-otp: seen and at are the OTPs of the store and the
\* time when verifyOTPFromMongoDB looked
NewVerify(number, code, pc, status) ==
    [number |-> number, code |-> code, seen |-> otps, at |-> clock,
     valid |-> FALSE, config |-> NoConfig, pc |-> pc, applied |-> NoConfig,
     status |-> status]

\* /verify-otp up to its await verifyOTPFromMongoDB: 400 for a missing
\* parameter, and nothing of the request is kept
RouteVerifyOtpUpTo(number, code, max) ==
    /\ Len(verifies) < max
    /\ verifies' = Append(verifies,
                      IF number = NoNumber \/ code = NoOtp.code
                      THEN NewVerify(NoNumber, NoOtp.code, "done", 400)
                      ELSE NewVerify(number, code, "verify", 0))
    /\ UNCHANGED <<activeSockets, socketCreationTime, connecting, sessions,
                   numbers, sessionDir, calls, socks, clock, nextCreds,
                   retryChain, discs, env, restartPending, pending, otps,
                   userConfig, issued, fleet, requests>>
    /\ lastUpdate' = NoUpdate
    /\ lastSave' = NoSave
    /\ lastDispatch' = NoDispatch

\* await verifyOTPFromMongoDB(sanitizedNumber, otp) ends: 400 if not valid.
\* It is in no try: when it throws, the request is never answered and the
\* rejection is handled by nothing
VerifyOtp(v, ok, raised) ==
    LET t == Sanitize(verifies[v].number)
        verification == verifyOTPFromMongoDB(otps, t, verifies[v].code, clock)
    IN
    /\ v \in DOMAIN verifies
    /\ verifies[v].pc = "verify"
    /\ verifies' =
          IF ~ok THEN [verifies EXCEPT ![v].pc = "rejected"]
          ELSE [verifies EXCEPT
                  ![v].seen = otps, ![v].at = clock,
                  ![v].valid = verification.valid,
                  ![v].config = verification.config,
                  ![v].pc = IF verification.valid THEN "update" ELSE "done",
                  ![v].status = IF verification.valid THEN 0 ELSE 400]
    /\ otps' = IF ok /\ verification.valid THEN [otps EXCEPT ![t] = NoOtp]
               ELSE otps
    /\ restartPending' = AfterRejection(t, ~ok, raised)
    /\ ok => ~raised
    /\ UNCHANGED <<activeSockets, socketCreationTime, connecting, sessions,
                   numbers, sessionDir, calls, socks, clock, nextCreds,
                   retryChain, discs, env, pending, userConfig, issued, fleet,
                   requests>>
    /\ lastUpdate' = NoUpdate
    /\ lastSave' = NoSave
    /\ lastDispatch' = NoDispatch

\* await updateUserConfigInMongoDB(...); activeSockets.get; catch: 500
VerifyUpdateConfig(v, ok) ==
    /\ v \in DOMAIN verifies
    /\ verifies[v].pc = "update"
    /\ LET t == Sanitize(verifies[v].number) IN
       IF ~ok
       THEN /\ verifies' = [verifies EXCEPT ![v].pc = "done", ![v].status = 500]
            /\ UNCHANGED userConfig
       ELSE /\ userConfig' = updateUserConfigInMongoDB(userConfig, t, verifies[v].config)
            /\ verifies' = IF activeSockets[t] # NoSocket
                           THEN [verifies EXCEPT ![v].pc = "notify",
                                                 ![v].applied = verifies[v].config]
                           ELSE [verifies EXCEPT ![v].pc = "done",
                                                 ![v].applied = verifies[v].config,
                                                 ![v].status = 200]
    /\ UNCHANGED <<activeSockets, socketCreationTime, connecting, sessions,
                   numbers, sessionDir, calls, socks, clock, nextCreds,
                   retryChain, discs, env, restartPending, pending, otps, issued,
                   fleet, requests>>
    /\ lastUpdate' = NoUpdate
    /\ lastSave' = NoSave
    /\ lastDispatch' = NoDispatch

\* await socket.sendMessage(...); res.json(success); catch: 500
VerifyNotify(v, ok) ==
    /\ v \in DOMAIN verifies
    /\ verifies[v].pc = "notify"
    /\ verifies' = [verifies EXCEPT ![v].pc = "done",
                                    ![v].status = IF ok THEN 200 ELSE 500]
    /\ UNCHANGED <<activeSockets, socketCreationTime, connecting, sessions,
                   numbers, sessionDir, calls, socks, clock, nextCreds,
                   retryChain, discs, env, restartPending, pending, otps,
                   userConfig, issued, fleet, requests>>
    /\ lastUpdate' = NoUpdate
    /\ lastSave' = NoSave
    /\ lastDispatch' = NoDispatch

\* time passes: the validity of an OTP, or a minute more
TickUpTo(max) ==
    /\ \E dt \in {OtpValidity, OtpValidity + 1} :
          /\ clock + dt <= max
          /\ clock' = clock + dt
    /\ UNCHANGED <<activeSockets, socketCreationTime, connecting, sessions,
                   numbers, sessionDir, calls, socks, nextCreds, retryChain>>
    /\ lastUpdate' = NoUpdate
    /\ Quiet

---------------------------------------------------------------------------
(* router.get('/connect-all') and autoReconnectFromMongoDB: the roster is   *)
(* fetched once, then one number is handled at a time.                     *)

\* getAllNumbersFromMongoDB(): the roster in any order
Rosters(roster) ==
    { order \in [1 .. Cardinality(roster) -> roster] :
        \A j, k \in DOMAIN order : j # k => order[j] # order[k] }

\* every number taken in turn
NextTurn_NoSkip(roster, from) == from

\* for (const number of numbers) { if (activeSockets.has(number)) continue; ... }:
\* the first number from position from on that is not in activeSockets
NextTurn(roster, from) ==
    LET open == { k \in from .. Len(roster) : activeSockets[roster[k]] = NoSocket } IN
    IF open = {} THEN Len(roster) + 1
    ELSE CHOOSE k \in open : \A j \in open : k <= j

\* results.push({ number, status: 'already_connected' }) of the numbers passed over
Skipped(roster, from, to) ==
    [j \in 1 .. (to - from) |->
        [number |-> roster[from + j - 1], status |-> "already_connected"]]

\* the loop of run r, which is now f, from position from to its next await
\* or to its end; /connect-all keeps the results and answers with them,
\* autoReconnectFromMongoDB only logs
FleetLoop(r, f, from, max) ==
    LET k == NextTurn(f.roster, from)
        results == IF f.kind = "route"
                   THEN f.results \o Skipped(f.roster, from, k) ELSE <<>>
    IN
    IF k > Len(f.roster)
    THEN /\ fleet' = [fleet EXCEPT ![r] =
                        EndOfRun([f EXCEPT !.turn = k, !.results = results], 200)]
         /\ UNCHANGED <<calls, socks, connecting>>
    ELSE /\ Len(calls) < max
         /\ fleet' = [fleet EXCEPT ![r] =
                        [f EXCEPT !.pc = "await", !.turn = k,
                                  !.call = Len(calls) + 1,
                                  !.invoked = Append(@, Len(calls) + 1),
                                  !.results = results]]
         /\ inconnuboyPairEntry(f.roster[k], "mock", socks)

\* a request of /connect-all, up to its await getAllNumbersFromMongoDB
RouteConnectAllUpTo(max) ==
    /\ Len(fleet) < max
    /\ fleet' = Append(fleet, NewRun("route"))
    /\ UNCHANGED <<activeSockets, socketCreationTime, connecting, sessions,
                   numbers, sessionDir, calls, socks, clock, nextCreds,
                   retryChain, discs, env, restartPending, pending, otps,
                   userConfig, issued, verifies, requests>>
    /\ lastUpdate' = NoUpdate
    /\ lastSave' = NoSave
    /\ lastDispatch' = NoDispatch

\* await getAllNumbersFromMongoDB() ends, for a run of /connect-all or, its
\* timer having fired, of autoReconnectFromMongoDB: if it throws, 500 or a
\* line of the log; for no number, 404 or a line of the log
FleetFetchUpTo(r, order, ok, max) ==
    /\ r \in DOMAIN fleet
    /\ fleet[r].pc = "fetch"
    /\ order \in Rosters(numbers)
    /\ IF ~ok
       THEN /\ fleet' = [fleet EXCEPT ![r] = EndOfRun(fleet[r], 500)]
            /\ UNCHANGED <<calls, socks, connecting>>
       ELSE IF Len(order) = 0
       THEN /\ fleet' = [fleet EXCEPT ![r] = EndOfRun(fleet[r], 404)]
            /\ UNCHANGED <<calls, socks, connecting>>
       ELSE FleetLoop(r, [fleet[r] EXCEPT !.roster = order], 1, max)
    /\ UNCHANGED <<activeSockets, socketCreationTime, sessions, numbers,
                   sessionDir, clock, nextCreds, retryChain, discs, env,
                   restartPending, pending, otps, userConfig, issued, verifies,
                   requests>>
    /\ lastUpdate' = NoUpdate
    /\ lastSave' = NoSave
    /\ lastDispatch' = NoDispatch

\* await inconnuboyPair(number, mockRes) returns; /connect-all does
\* results.push(connection_initiated); the run waits at its await delay
FleetReturn(r) ==
    /\ r \in DOMAIN fleet
    /\ fleet[r].pc = "await"
    /\ calls[fleet[r].call].pc = "done"
    /\ fleet' = [fleet EXCEPT
                   ![r].pc = "delay",
                   ![r].results =
                       IF fleet[r].kind = "route"
                       THEN Append(@, [number |-> fleet[r].roster[fleet[r].turn],
                                       status |-> "connection_initiated"])
                       ELSE @]
    /\ UNCHANGED <<activeSockets, socketCreationTime, connecting, sessions,
                   numbers, sessionDir, calls, socks, clock, nextCreds,
                   retryChain, discs, env, restartPending, pending, otps,
                   userConfig, issued, verifies, requests>>
    /\ lastUpdate' = NoUpdate
    /\ lastSave' = NoSave
    /\ lastDispatch' = NoDispatch

\* await delay(1000), or delay(2000), ends: the loop goes on with the next
\* number
FleetDelayEndUpTo(r, max) ==
    /\ r \in DOMAIN fleet
    /\ fleet[r].pc = "delay"
    /\ FleetLoop(r, fleet[r], fleet[r].turn + 1, max)
    /\ UNCHANGED <<activeSockets, socketCreationTime, sessions, numbers,
                   sessionDir, clock, nextCreds, retryChain, discs, env,
                   restartPending, pending, otps, userConfig, issued, verifies,
                   requests>>
    /\ lastUpdate' = NoUpdate
    /\ lastSave' = NoSave
    /\ lastDispatch' = NoDispatch

---------------------------------------------------------------------------
(* Specifications.  Each bounds the invocations of inconnuboyPair in a     *)
(* behaviour: those of the requests, of the reconnects and of the run of   *)
(* autoReconnectFromMongoDB that every process starts with.                *)

\* the rosters getAllNumbersFromMongoDB can return
FleetOrders == UNION { Rosters(roster) : roster \in SUBSET Tenants }

\* the positions a run can take in fleet
FleetSlots == 1 .. (MaxFleet + 2)

\* autoReconnectFromMongoDB, the first run of the process, step by step
AutoReconnect(max) ==
    \/ \E order \in FleetOrders, ok \in BOOLEAN : FleetFetchUpTo(1, order, ok, max)
    \/ FleetReturn(1)
    \/ FleetDelayEndUpTo(1, max)

\* the faults that bear on the listener of setupMessageHandlers and on the
\* call listeners
PresenceFaults == { f \in Faults : f.kind \in {"none", "config", "client"} }

(* Up to MaxCalls invocations, which may run at the same time, with the    *)
(* connection.update events and the timers of their sockets.               *)
RouteCode(number) == RouteCodeUpTo(number, MaxCalls)
CredsUpdate(i) == CredsUpdateUpTo(i, MaxCreds)
Reconnect(i) == ReconnectUpTo(i, MaxCalls)

Next ==
    \/ AutoReconnect(MaxCalls)
    \/ \E number \in RawNumbers : RouteCode(number)
    \/ \E i \in Slots, ok \in BOOLEAN : ConnectGetSession(i, ok)
    \/ \E i \in Slots, ok \in BOOLEAN : ConnectRemoveDir(i, ok)
    \/ \E i \in Slots, fault \in CaughtFaults : ConnectMakeSocket(i, fault)
    \/ \E i \in Slots, ok \in BOOLEAN : PairingTimer(i, ok)
    \/ \E i \in Slots : ConnectionOpen(i)
    \/ \E i \in Slots, ok \in BOOLEAN, raised \in BOOLEAN : AddNumber(i, ok, raised)
    \/ \E i \in Slots, ok \in BOOLEAN, raised \in BOOLEAN : Welcome(i, ok, raised)
    \/ \E i \in Slots, reason \in CloseReasons : ConnectionClose(i, reason)
    \/ \E i \in Slots, ok \in BOOLEAN, raised \in BOOLEAN :
          UnlinkDeleteSession(i, ok, raised)
    \/ \E i \in Slots, ok \in BOOLEAN, raised \in BOOLEAN :
          UnlinkRemoveNumber(i, ok, raised)
    \/ \E i \in Slots : Reconnect(i)

Spec == Init /\ [][Next]_vars

(* Concurrent requests only: up to MaxRace invocations of inconnuboyPair   *)
(* race through their awaits; no socket event is delivered.                *)
RouteCodeRace(number) == RouteCodeUpTo(number, MaxRace)

NextRace ==
    \/ AutoReconnect(MaxRace)
    \/ \E number \in RawNumbers : RouteCodeRace(number)
    \/ \E i \in Slots, ok \in BOOLEAN : ConnectGetSession(i, ok)
    \/ \E i \in Slots, ok \in BOOLEAN : ConnectRemoveDir(i, ok)
    \/ \E i \in Slots, fault \in SocketFaults : ConnectMakeSocket(i, fault)
    \/ \E i \in Slots, ok \in BOOLEAN : PairingTimer(i, ok)

SpecRace == Init /\ [][NextRace]_vars

(* One request and the reconnects that follow from it, with every event    *)
(* and timer of its sockets.                                               *)
ReconnectLife(i) == ReconnectUpTo(i, MaxLife)

\* the failures of the setup that leave a pairing timer or an answered
\* response behind them are among these
LifeFaults == CaughtFaults \cup {"creds"}

NextLife ==
    \/ AutoReconnect(1)
    \/ \E number \in RawNumbers : RouteCodeUpTo(number, 1)
    \/ \E i \in Slots, ok \in BOOLEAN : ConnectGetSession(i, ok)
    \/ \E i \in Slots, ok \in BOOLEAN : ConnectRemoveDir(i, ok)
    \/ \E i \in Slots, fault \in LifeFaults : ConnectMakeSocket(i, fault)
    \/ \E i \in Slots, ok \in BOOLEAN : PairingTimer(i, ok)
    \/ \E i \in Slots : CredsUpdate(i)
    \/ \E i \in Slots, raised \in BOOLEAN : CredsRead(i, raised)
    \/ \E i \in Slots, creds \in Blobs, ok \in BOOLEAN, raised \in BOOLEAN :
          SaveSession(i, creds, ok, raised)
    \/ \E i \in Slots : ConnectionOpen(i)
    \/ \E i \in Slots, ok \in BOOLEAN, raised \in BOOLEAN : AddNumber(i, ok, raised)
    \/ \E i \in Slots, ok \in BOOLEAN, raised \in BOOLEAN : Welcome(i, ok, raised)
    \/ \E i \in Slots, reason \in CloseReasons : ConnectionClose(i, reason)
    \/ \E i \in Slots, ok \in BOOLEAN, raised \in BOOLEAN :
          UnlinkDeleteSession(i, ok, raised)
    \/ \E i \in Slots, ok \in BOOLEAN, raised \in BOOLEAN :
          UnlinkRemoveNumber(i, ok, raised)
    \/ \E i \in Slots : ReconnectLife(i)

SpecLife == Init /\ [][NextLife]_vars

(* The same with the connection.update events alone, for longer chains of  *)
(* reconnects.                                                             *)
ReconnectChain(i) == ReconnectUpTo(i, MaxChain)

NextChain ==
    \/ AutoReconnect(1)
    \/ \E number \in Callers : RouteCodeUpTo(number, 1)
    \/ \E i \in Slots, ok \in BOOLEAN : ConnectGetSession(i, ok)
    \/ \E i \in Slots, ok \in BOOLEAN : ConnectRemoveDir(i, ok)
    \/ \E i \in Slots, fault \in CaughtFaults : ConnectMakeSocket(i, fault)
    \/ \E i \in Slots, ok \in BOOLEAN : PairingTimer(i, ok)
    \/ \E i \in Slots : ConnectionOpen(i)
    \/ \E i \in Slots, ok \in BOOLEAN, raised \in BOOLEAN : AddNumber(i, ok, raised)
    \/ \E i \in Slots, ok \in BOOLEAN, raised \in BOOLEAN : Welcome(i, ok, raised)
    \/ \E i \in Slots, reason \in CloseReasons : ConnectionClose(i, reason)
    \/ \E i \in Slots, ok \in BOOLEAN, raised \in BOOLEAN :
          UnlinkDeleteSession(i, ok, raised)
    \/ \E i \in Slots, ok \in BOOLEAN, raised \in BOOLEAN :
          UnlinkRemoveNumber(i, ok, raised)
    \/ \E i \in Slots : ReconnectChain(i)

SpecChain == Init /\ [][NextChain]_vars

(* One request and the creds.update events of its socket, which may        *)
(* overlap: a second event arrives while the first store write is pending. *)
CredsUpdateOverlap(i) == CredsUpdateUpTo(i, MaxBlobs)

NextCreds ==
    \/ AutoReconnect(1)
    \/ \E number \in RawNumbers : RouteCodeUpTo(number, 1)
    \/ \E i \in Slots, ok \in BOOLEAN : ConnectGetSession(i, ok)
    \/ \E i \in Slots, ok \in BOOLEAN : ConnectRemoveDir(i, ok)
    \/ \E i \in Slots, fault \in CaughtFaults : ConnectMakeSocket(i, fault)
    \/ \E i \in Slots, ok \in BOOLEAN : PairingTimer(i, ok)
    \/ \E i \in Slots : ConnectionOpen(i)
    \/ \E i \in Slots, ok \in BOOLEAN, raised \in BOOLEAN : AddNumber(i, ok, raised)
    \/ \E i \in Slots, ok \in BOOLEAN, raised \in BOOLEAN : Welcome(i, ok, raised)
    \/ \E i \in Slots : CredsUpdateOverlap(i)
    \/ \E i \in Slots, raised \in BOOLEAN : CredsRead(i, raised)
    \/ \E i \in Slots, creds \in Blobs, ok \in BOOLEAN, raised \in BOOLEAN :
          SaveSession(i, creds, ok, raised)

SpecCreds == Init /\ [][NextCreds]_vars

(* One request to connect, the open event of its socket, up to MaxDisc     *)
(* requests to disconnect, and what the close event of a closing transport *)
(* starts.                                                                 *)
RouteDisconnect(number, closing) ==
    RouteDisconnectUpTo(number, closing, MaxDisc)

NextDisc ==
    \/ AutoReconnect(1)
    \/ \E number \in Callers : RouteCodeUpTo(number, 1)
    \/ \E i \in Slots, ok \in BOOLEAN : ConnectGetSession(i, ok)
    \/ \E i \in Slots, ok \in BOOLEAN : ConnectRemoveDir(i, ok)
    \/ \E i \in Slots, fault \in CaughtFaults : ConnectMakeSocket(i, fault)
    \/ \E i \in Slots, ok \in BOOLEAN : PairingTimer(i, ok)
    \/ \E i \in Slots : ConnectionOpen(i)
    \/ \E i \in Slots, ok \in BOOLEAN, raised \in BOOLEAN : AddNumber(i, ok, raised)
    \/ \E i \in Slots, ok \in BOOLEAN, raised \in BOOLEAN : Welcome(i, ok, raised)
    \/ \E number \in Callers, closing \in WsCloses :
          RouteDisconnect(number, closing)
    \/ \E d \in DiscSlots, ok \in BOOLEAN : DisconnectClosed(d, ok)
    \/ \E d \in DiscSlots, ok \in BOOLEAN : DisconnectRemoveNumber(d, ok)
    \/ \E d \in DiscSlots, ok \in BOOLEAN : DisconnectDeleteSession(d, ok)
    \/ \E i \in Slots, ok \in BOOLEAN, raised \in BOOLEAN :
          UnlinkDeleteSession(i, ok, raised)
    \/ \E i \in Slots, ok \in BOOLEAN, raised \in BOOLEAN :
          UnlinkRemoveNumber(i, ok, raised)
    \/ \E i \in Slots : Reconnect(i)

SpecDisc == Init /\ [][NextDisc]_vars

(* One request to connect, under any environment, and the messages of its  *)
(* socket once it is open.                                                 *)
\* the messages.upsert events of socket i, which is open
UpsertOf(i) == \E mek \in Messages : UpsertUpTo(i, mek, MaxEvents)

NextDispatch ==
    \/ AutoReconnect(1)
    \/ \E number \in Callers : RouteCodeUpTo(number, 1)
    \/ \E i \in Slots, ok \in BOOLEAN : ConnectGetSession(i, ok)
    \/ \E i \in Slots, ok \in BOOLEAN : ConnectRemoveDir(i, ok)
    \/ \E i \in Slots, fault \in CaughtFaults : ConnectMakeSocket(i, fault)
    \/ \E i \in Slots, ok \in BOOLEAN : PairingTimer(i, ok)
    \/ \E i \in Slots : ConnectionOpen(i)
    \/ \E i \in Slots, ok \in BOOLEAN, raised \in BOOLEAN : AddNumber(i, ok, raised)
    \/ \E i \in Slots, ok \in BOOLEAN, raised \in BOOLEAN : Welcome(i, ok, raised)
    \/ \E i \in Slots : UpsertOf(i)
    \/ \E i \in Slots : MessageHandlersResumeOn(i, PresenceFaults)
    \/ \E i \in Slots : UpsertResumeOn(i, Faults)
    \/ Pm2Restart

SpecDispatch == InitEnv /\ [][NextDispatch]_vars

(* Requests to connect of several numbers, with or without PM2_NAME, with  *)
(* the open events of their sockets and the message that makes a handler   *)
(* run.                                                                    *)

\* an image
IsoMessages == { Mek(TRUE, "user", "imageMessage", NoText, TRUE) }

UpsertIso(i) == \E mek \in IsoMessages : UpsertUpTo(i, mek, MaxEvents)

\* the process started with or without PM2_NAME in its environment
InitPm2 == \E e \in { x \in Envs : x.WORK_TYPE = DefaultEnv.WORK_TYPE } : InitWith(e)

IsoFaults == { f \in Faults : f.kind \in {"none", "throws"} }

NextIso ==
    \/ AutoReconnect(1)
    \/ \E number \in Callers : RouteCode(number)
    \/ \E i \in Slots, ok \in BOOLEAN : ConnectGetSession(i, ok)
    \/ \E i \in Slots, ok \in BOOLEAN : ConnectRemoveDir(i, ok)
    \/ \E i \in Slots, fault \in CaughtFaults : ConnectMakeSocket(i, fault)
    \/ \E i \in Slots, ok \in BOOLEAN : PairingTimer(i, ok)
    \/ \E i \in Slots : ConnectionOpen(i)
    \/ \E i \in Slots, ok \in BOOLEAN, raised \in BOOLEAN : AddNumber(i, ok, raised)
    \/ \E i \in Slots, ok \in BOOLEAN, raised \in BOOLEAN : Welcome(i, ok, raised)
    \/ \E i \in Slots : UpsertIso(i)
    \/ \E i \in Slots : MessageHandlersResumeOn(i, PresenceFaults)
    \/ \E i \in Slots : UpsertResumeOn(i, IsoFaults)
    \/ Pm2Restart

SpecIso == InitPm2 /\ [][NextIso]_vars

(* One request and its reconnects; a socket closes only while an           *)
(* invocation is left for the reconnect that may follow, and the timer of  *)
(* a delay fires.                                                          *)
ReconnectRetry(i) == ReconnectUpTo(i, MaxRetry)

ConnectionCloseRetry(i, reason) ==
    /\ Len(calls) < MaxRetry
    /\ ConnectionClose(i, reason)

NextRetry ==
    \/ AutoReconnect(1)
    \/ \E number \in RawNumbers : RouteCodeUpTo(number, 1)
    \/ \E i \in Slots, ok \in BOOLEAN : ConnectGetSession(i, ok)
    \/ \E i \in Slots, ok \in BOOLEAN : ConnectRemoveDir(i, ok)
    \/ \E i \in Slots, fault \in CaughtFaults : ConnectMakeSocket(i, fault)
    \/ \E i \in Slots, ok \in BOOLEAN : PairingTimer(i, ok)
    \/ \E i \in Slots : ConnectionOpen(i)
    \/ \E i \in Slots, ok \in BOOLEAN, raised \in BOOLEAN : AddNumber(i, ok, raised)
    \/ \E i \in Slots, ok \in BOOLEAN, raised \in BOOLEAN : Welcome(i, ok, raised)
    \/ \E i \in Slots, reason \in CloseReasons : ConnectionCloseRetry(i, reason)
    \/ \E i \in Slots, ok \in BOOLEAN, raised \in BOOLEAN :
          UnlinkDeleteSession(i, ok, raised)
    \/ \E i \in Slots, ok \in BOOLEAN, raised \in BOOLEAN :
          UnlinkRemoveNumber(i, ok, raised)
    \/ \E i \in Slots : ReconnectRetry(i)

SpecRetry ==
    /\ Init
    /\ [][NextRetry]_vars
    /\ WF_vars(\E i \in Slots : ReconnectRetry(i))

(* Requests to connect with the express response; every awaited call      *)
(* settles and every timer fires.                                          *)
NextSink ==
    \/ AutoReconnect(MaxSink)
    \/ \E number \in RawNumbers : RouteCodeUpTo(number, MaxSink)
    \/ \E i \in Slots, ok \in BOOLEAN : ConnectGetSession(i, ok)
    \/ \E i \in Slots, ok \in BOOLEAN : ConnectRemoveDir(i, ok)
    \/ \E i \in Slots, fault \in SocketFaults : ConnectMakeSocket(i, fault)
    \/ \E i \in Slots, ok \in BOOLEAN : PairingTimer(i, ok)

SpecSink ==
    /\ Init
    /\ [][NextSink]_vars
    /\ WF_vars(\E i \in Slots, ok \in BOOLEAN : ConnectGetSession(i, ok))
    /\ WF_vars(\E i \in Slots, ok \in BOOLEAN : ConnectRemoveDir(i, ok))
    /\ WF_vars(\E i \in Slots, fault \in SocketFaults : ConnectMakeSocket(i, fault))
    /\ WF_vars(\E i \in Slots, ok \in BOOLEAN : PairingTimer(i, ok))

(* A run of /connect-all over any roster, with a request to connect that   *)
(* may come before its invocations, and the closes of the sockets.         *)
RouteConnectAll == RouteConnectAllUpTo(MaxFleet + 1)
FleetFetch(r, order, ok) == FleetFetchUpTo(r, order, ok, MaxCalls)
FleetDelayEnd(r) == FleetDelayEndUpTo(r, MaxCalls)

NextFleet ==
    \/ \E number \in Callers : RouteCodeUpTo(number, 1)
    \/ RouteConnectAll
    \/ \E r \in FleetSlots, order \in FleetOrders, ok \in BOOLEAN :
          FleetFetch(r, order, ok)
    \/ \E r \in FleetSlots : FleetReturn(r)
    \/ \E r \in FleetSlots : FleetDelayEnd(r)
    \/ \E i \in Slots, ok \in BOOLEAN : ConnectGetSession(i, ok)
    \/ \E i \in Slots, ok \in BOOLEAN : ConnectRemoveDir(i, ok)
    \/ \E i \in Slots, fault \in CaughtFaults : ConnectMakeSocket(i, fault)
    \/ \E i \in Slots, ok \in BOOLEAN : PairingTimer(i, ok)
    \/ \E i \in Slots, reason \in CloseReasons : ConnectionClose(i, reason)
    \/ \E i \in Slots, ok \in BOOLEAN, raised \in BOOLEAN :
          UnlinkDeleteSession(i, ok, raised)
    \/ \E i \in Slots, ok \in BOOLEAN, raised \in BOOLEAN :
          UnlinkRemoveNumber(i, ok, raised)
    \/ \E i \in Slots : Reconnect(i)

SpecFleet == InitRoster /\ [][NextFleet]_vars

(* One request to connect, and the configuration-update routes.            *)
\* the otp parameter of a request: the code that was generated, another, or
\* none
VerifyInputs == (OtpInputs \ OtpCodes) \cup {LeastOtp, NoOtp.code}

\* a request of /verify-otp with the parameters of an earlier one
ReplayVerifyOtp(v) ==
    /\ v \in DOMAIN verifies
    /\ RouteVerifyOtpUpTo(verifies[v].number, verifies[v].code, MaxVerify)

Tick == TickUpTo(MaxClock)

NextOtp ==
    \/ AutoReconnect(1)
    \/ \E number \in Callers : RouteCodeUpTo(number, 1)
    \/ \E i \in Slots, ok \in BOOLEAN : ConnectGetSession(i, ok)
    \/ \E i \in Slots, ok \in BOOLEAN : ConnectRemoveDir(i, ok)
    \/ \E i \in Slots, fault \in CaughtFaults : ConnectMakeSocket(i, fault)
    \/ \E i \in Slots, ok \in BOOLEAN : PairingTimer(i, ok)
    \/ \E number \in NumberInputs, config \in ConfigStrings :
          RouteUpdateConfigUpTo(number, config, LeastOtp, 1)
    \/ \E q \in 1 .. (MaxOtp + 1), ok \in BOOLEAN, raised \in BOOLEAN :
          UpdateConfigSaved(q, ok, raised)
    \/ \E q \in 1 .. (MaxOtp + 1), ok \in BOOLEAN : UpdateConfigSend(q, ok)
    \/ \E number \in NumberInputs, code \in VerifyInputs :
          RouteVerifyOtpUpTo(number, code, 1)
    \/ \E v \in 1 .. (MaxVerify + 1) : ReplayVerifyOtp(v)
    \/ \E v \in 1 .. (MaxVerify + 1), ok \in BOOLEAN, raised \in BOOLEAN :
          VerifyOtp(v, ok, raised)
    \/ \E v \in 1 .. (MaxVerify + 1), ok \in BOOLEAN : VerifyUpdateConfig(v, ok)
    \/ \E v \in 1 .. (MaxVerify + 1), ok \in BOOLEAN : VerifyNotify(v, ok)
    \/ Tick

SpecOtp == Init /\ [][NextOtp]_vars

(* One invocation, one request to update the configuration, one            *)
(* verification and one request to disconnect.                             *)
NextConfig ==
    \/ AutoReconnect(1)
    \/ \E number \in Callers : RouteCodeUpTo(number, 1)
    \/ \E i \in Slots, ok \in BOOLEAN : ConnectGetSession(i, ok)
    \/ \E i \in Slots, ok \in BOOLEAN : ConnectRemoveDir(i, ok)
    \/ \E i \in Slots, fault \in CaughtFaults : ConnectMakeSocket(i, fault)
    \/ \E i \in Slots, ok \in BOOLEAN : PairingTimer(i, ok)
    \/ \E number \in NumberInputs, config \in ConfigStrings :
          RouteUpdateConfigUpTo(number, config, LeastOtp, 1)
    \/ \E q \in 1 .. (MaxOtp + 1), ok \in BOOLEAN, raised \in BOOLEAN :
          UpdateConfigSaved(q, ok, raised)
    \/ \E q \in 1 .. (MaxOtp + 1), ok \in BOOLEAN : UpdateConfigSend(q, ok)
    \/ \E number \in NumberInputs, code \in OtpCodes \cup {NoOtp.code} :
          RouteVerifyOtpUpTo(number, code, 1)
    \/ \E v \in 1 .. (MaxVerify + 1), ok \in BOOLEAN, raised \in BOOLEAN :
          VerifyOtp(v, ok, raised)
    \/ \E number \in Callers, closing \in WsCloses :
          RouteDisconnectUpTo(number, closing, 1)
    \/ \E d \in DiscSlots, ok \in BOOLEAN : DisconnectClosed(d, ok)
    \/ \E d \in DiscSlots, ok \in BOOLEAN : DisconnectRemoveNumber(d, ok)
    \/ \E d \in DiscSlots, ok \in BOOLEAN : DisconnectDeleteSession(d, ok)
    \/ \E v \in 1 .. (MaxVerify + 1), ok \in BOOLEAN : VerifyUpdateConfig(v, ok)
    \/ \E v \in 1 .. (MaxVerify + 1), ok \in BOOLEAN : VerifyNotify(v, ok)
    \/ \E i \in Slots, ok \in BOOLEAN, raised \in BOOLEAN :
          UnlinkDeleteSession(i, ok, raised)
    \/ \E i \in Slots, ok \in BOOLEAN, raised \in BOOLEAN :
          UnlinkRemoveNumber(i, ok, raised)
    \/ \E i \in Slots : Reconnect(i)

SpecConfig == Init /\ [][NextConfig]_vars

(* One request to connect of a number whose session is stored, one request *)
(* to update the configuration and its verification, and the message and   *)
(* call events of the open socket.                                         *)
\* a status, a sticker of a chat, and an event that holds no message
FlagMessages ==
    { Mek(TRUE, "status@broadcast", "conversation", <<".", "a">>, FALSE),
      Mek(TRUE, "user", "stickerMessage", NoText, FALSE),
      Mek(FALSE, "user", "conversation", NoText, FALSE) }

UpsertFlags(i) == \E mek \in FlagMessages : UpsertUpTo(i, mek, MaxEvents)

CallOffer(i) == CallOfferUpTo(i, MaxEvents)

NextFlags ==
    \/ AutoReconnect(1)
    \/ \E number \in PairedBefore : RouteCodeUpTo(number, 1)
    \/ \E i \in Slots, ok \in BOOLEAN : ConnectGetSession(i, ok)
    \/ \E i \in Slots, fault \in CaughtFaults : ConnectMakeSocket(i, fault)
    \/ \E i \in Slots : ConnectionOpen(i)
    \/ \E i \in Slots, ok \in BOOLEAN, raised \in BOOLEAN : AddNumber(i, ok, raised)
    \/ \E number \in Callers, config \in Configs :
          RouteUpdateConfigUpTo(number, config, LeastOtp, 1)
    \/ \E q \in 1 .. (MaxOtp + 1), ok \in BOOLEAN, raised \in BOOLEAN :
          UpdateConfigSaved(q, ok, raised)
    \/ \E q \in 1 .. (MaxOtp + 1), ok \in BOOLEAN : UpdateConfigSend(q, ok)
    \/ \E number \in Callers : RouteVerifyOtpUpTo(number, LeastOtp, 1)
    \/ \E v \in 1 .. (MaxVerify + 1), ok \in BOOLEAN, raised \in BOOLEAN :
          VerifyOtp(v, ok, raised)
    \/ \E v \in 1 .. (MaxVerify + 1), ok \in BOOLEAN : VerifyUpdateConfig(v, ok)
    \/ \E v \in 1 .. (MaxVerify + 1), ok \in BOOLEAN : VerifyNotify(v, ok)
    \/ \E i \in Slots : UpsertFlags(i)
    \/ \E i \in Slots : CallOffer(i)
    \/ \E i \in Slots : MessageHandlersResumeOn(i, PresenceFaults)
    \/ \E i \in Slots : UpsertResumeOn(i, PresenceFaults)
    \/ \E i \in Slots : CallResumeOn(i, PresenceFaults)

SpecFlags == Init /\ [][NextFlags]_vars

(* One request to connect and its reconnects, every close branch of its    *)
(* sockets, and one request to disconnect.                                 *)
NextMaps ==
    \/ AutoReconnect(1)
    \/ \E number \in Callers : RouteCodeUpTo(number, 1)
    \/ \E i \in Slots, ok \in BOOLEAN : ConnectGetSession(i, ok)
    \/ \E i \in Slots, ok \in BOOLEAN : ConnectRemoveDir(i, ok)
    \/ \E i \in Slots, fault \in CaughtFaults : ConnectMakeSocket(i, fault)
    \/ \E i \in Slots, ok \in BOOLEAN : PairingTimer(i, ok)
    \/ \E i \in Slots : ConnectionOpen(i)
    \/ \E i \in Slots, ok \in BOOLEAN, raised \in BOOLEAN : AddNumber(i, ok, raised)
    \/ \E i \in Slots, ok \in BOOLEAN, raised \in BOOLEAN : Welcome(i, ok, raised)
    \/ \E i \in Slots, reason \in CloseReasons : ConnectionCloseRetry(i, reason)
    \/ \E i \in Slots, ok \in BOOLEAN, raised \in BOOLEAN :
          UnlinkDeleteSession(i, ok, raised)
    \/ \E i \in Slots, ok \in BOOLEAN, raised \in BOOLEAN :
          UnlinkRemoveNumber(i, ok, raised)
    \/ \E i \in Slots : ReconnectRetry(i)
    \/ \E number \in Callers, closing \in WsCloses :
          RouteDisconnectUpTo(number, closing, 1)
    \/ \E d \in DiscSlots, ok \in BOOLEAN : DisconnectClosed(d, ok)
    \/ \E d \in DiscSlots, ok \in BOOLEAN : DisconnectRemoveNumber(d, ok)
    \/ \E d \in DiscSlots, ok \in BOOLEAN : DisconnectDeleteSession(d, ok)

SpecMaps == Init /\ [][NextMaps]_vars

---------------------------------------------------------------------------
(* Properties *)

CallsOf(t) == { i \in DOMAIN calls : TenantOf(i) = t }

\* invocations of inconnuboyPair for t that have not returned
InFlight(t) == { i \in CallsOf(t) : calls[i].pc # "done" }

\* sockets of t that were created and have not closed
LiveSockets(t) == { i \in CallsOf(t) : Alive(i) }

Acquisitions(t) == Cardinality({ i \in CallsOf(t) : calls[i].acquired })
Releases(t) == Cardinality({ i \in CallsOf(t) : calls[i].released })

---------------------------------------------------------------------------
\* C1: for every number, whatever the interleaving of concurrent
\* inconnuboyPair invocations for it, at most one socket that was created
\* for it and has not closed exists at any instant.
C1_AtMostOneLiveSocket ==
    \A t \in Tenants : Cardinality(LiveSockets(t)) <= 1

\* C2: while an invocation that set the connecting flag of a number has not
\* returned, the flag stays set: no other invocation clears it.
C2_FlagHeldUntilHolderExits ==
    \A t \in Tenants : InFlight(t) # {} => connecting[t]

\* C3: every clearing of the connecting flag of a number answers one earlier
\* setting of it, one for one, and once no invocation for the number is in
\* flight the flag is clear.
C3_OneReleasePerAcquisition ==
    \A t \in Tenants :
        /\ Releases(t) <= Acquisitions(t)
        /\ InFlight(t) = {} =>
              /\ Releases(t) = Acquisitions(t)
              /\ ~connecting[t]

\* C4: an invocation of inconnuboyPair for a number that is in activeSockets
\* returns at once as already_connected, answers its response with that
\* status, and leaves the registry, the creation times, the connecting flags,
\* the stored sessions, the roster and the local session files as they
\* were; it creates no socket.
C4_AlreadyConnectedChangesNothing ==
    [][ ( /\ Len(calls') = Len(calls) + 1
          /\ activeSockets[Sanitize(calls'[Len(calls')].number)] # NoSocket )
        => LET new == Len(calls') IN
           /\ calls'[new].pc = "done"
           /\ calls'[new].exit = "already_connected"
           /\ calls'[new].res = "http" => calls'[new].sent = <<"already_connected">>
           /\ socks'[new] = NoSock
           /\ UNCHANGED <<activeSockets, socketCreationTime, connecting,
                          sessions, numbers, sessionDir>>
      ]_vars

C4_Witness ==
    \E i \in DOMAIN calls :
        /\ calls[i].exit = "already_connected"
        /\ calls[i].sent = <<"already_connected">>
        /\ activeSockets[TenantOf(i)] \notin {NoSocket, i}

\* C5: when the close handler of a socket has finished its manual-unlink
\* branch (status 401), the number is in none of the registry, the stored
\* sessions and the roster, and no reconnect is scheduled, whatever was
\* interleaved with the handler.
C5_UnlinkLeavesNoTrace ==
    [][ \A i \in DOMAIN socks :
          ( socks[i].closePc = "removeNumber" /\ socks'[i].closePc = "unlinked" )
          => /\ activeSockets'[TenantOf(i)] = NoSocket
             /\ sessions'[TenantOf(i)] = NoSession
             /\ TenantOf(i) \notin numbers'
             /\ \A j \in DOMAIN socks' : socks'[j].closePc # "delay"
      ]_vars

\* C6: between two open events of a number, the close handlers schedule at
\* most maxRestartAttempts automatic reconnects for it.
C6_RetryBudget ==
    \A t \in Tenants : retryChain[t] <= maxRestartAttempts

\* C7: a number is in activeSockets exactly when its socket is live and its
\* listeners are attached: the registered socket has not closed, and every
\* socket of the number that has not closed is the registered one.
C7_RegisteredIffLive ==
    \A t \in Tenants :
        /\ activeSockets[t] # NoSocket =>
              Alive(activeSockets[t]) /\ socks[activeSockets[t]].listeners
        /\ \A i \in LiveSockets(t) : activeSockets[t] = i

\* C8: the handling of a close event with status 408, or with the message
\* of an expired pairing code, leaves the socket's restartAttempts as it was
\* and schedules no reconnect: no delay is started and inconnuboyPair is not
\* invoked.
C8_ExpectedClosureNoRetry ==
    [][ ( /\ lastUpdate'.connection = "close"
          /\ \/ lastUpdate'.lastDisconnect.statusCode = 408
             \/ "QR refs attempts ended" \in lastUpdate'.lastDisconnect.message )
        => LET i == lastUpdate'.call IN
           /\ socks'[i].restartAttempts = socks[i].restartAttempts
           /\ socks'[i].closePc \notin {"delay", "reconnected"}
           /\ retryChain' = retryChain
           /\ calls' = calls
      ]_vars

C8_Witness ==
    /\ lastUpdate.connection = "close"
    /\ lastUpdate.lastDisconnect.statusCode = 408
    /\ socks[lastUpdate.call].conn = "closed"
    /\ socks[lastUpdate.call].closePc = "normal"

\* C10: a number with no stored session is not in activeSockets before an
\* open event was delivered to its socket.
C10_NotRegisteredBeforeOpen ==
    \A t \in Tenants :
        ( activeSockets[t] # NoSocket /\ socks[activeSockets[t]].usePairingCode )
        => socks[activeSockets[t]].conn # "connecting"

\* C11: an invocation whose lookup returned a stored session writes that
\* session to the local creds.json in the step of the lookup; when it
\* creates its socket it starts no pairing timer and answers its response
\* with reconnecting before it returns; a socket has a pairing timer, and a
\* pairing code is requested for it, exactly when the lookup returned
\* nothing.
C11_RestoreSkipsPairing ==
    [][ \A i \in DOMAIN calls :
          /\ ( /\ calls[i].pc = "getSession"
               /\ calls'[i].pc = "makeSocket"
               /\ calls'[i].existingSession # NoSession )
             => sessionDir'[TenantOf(i)].creds = calls'[i].existingSession
          /\ ( calls[i].pc = "makeSocket" /\ calls'[i].exit = "registered" )
             => /\ ( socks'[i].pairTimer = "pending"
                       <=> calls[i].existingSession = NoSession )
                /\ socks'[i].usePairingCode
                       <=> calls[i].existingSession = NoSession
                /\ ( calls[i].existingSession # NoSession /\ calls[i].res = "http" )
                   => calls'[i].sent = <<"reconnecting">>
          /\ socks'[i].pairTimer = "fired" => calls'[i].existingSession = NoSession
      ]_vars

C11_Witness ==
    \E i \in DOMAIN calls :
        /\ calls[i].existingSession # NoSession
        /\ calls[i].exit = "registered"
        /\ calls[i].sent = <<"reconnecting">>
        /\ sessionDir[TenantOf(i)].creds = calls[i].existingSession
        /\ socks[i].pairTimer = "none"
        /\ socks[i].conn = "open"

\* C13: a failure of the session lookup, of the local restore or removal,
\* of the socket creation or of the listener setup ends the invocation by a
\* normal return, never by an exception: it is caught, the response of a
\* request that was not answered yet gets the internal error, a response
\* answered with reconnecting before the failure and the mock response of a
\* reconnect get nothing, and the connecting flag is released.
C13_FailureIsCaught ==
    [][ \A i \in DOMAIN calls :
          ( /\ calls[i].pc \in {"getSession", "removeDir", "makeSocket"}
            /\ \/ calls'[i].pc = "done" /\ calls'[i].exit # "registered"
               \/ socks'[i].setupRejected # "none" )
          => /\ calls'[i].exit = "error"
             /\ calls[i].res = "mock" => calls'[i].sent = <<>>
             /\ calls[i].res = "http" =>
                   \/ calls'[i].sent = <<"internal_error">>
                   \/ /\ calls'[i].sent = <<"reconnecting">>
                      /\ calls'[i].existingSession # NoSession
                      /\ Reached(socks'[i].stopped, "autoRestart")
             /\ ~connecting'[TenantOf(i)]
      ]_vars

\* C19: when a creds.update listener of a number has ended with its store
\* write done, no store write of the number has failed and none is pending,
\* the local creds.json of the number and its stored session are the same
\* blob.
C19_CacheAndStoreConverge ==
    ( /\ lastSave.call # 0
      /\ lastSave.result = "saved"
      /\ \A j \in CallsOf(TenantOf(lastSave.call)) :
            /\ socks[j].savingCreds = 0 /\ socks[j].credsPc = EmptyBag
            /\ ~socks[j].saveFailed /\ ~socks[j].readFailed )
    => sessionDir[TenantOf(lastSave.call)].creds = sessions[TenantOf(lastSave.call)]

\* C20: when the store write of a creds.update listener fails, the listener
\* still ends normally: nothing is thrown out of it, the local creds.json
\* keeps the refreshed blob, the number stays in activeSockets, and its
\* socket keeps its state and its listeners.
C20_StoreFailureNotEscalated ==
    [][ ( lastSave'.call # 0 /\ lastSave'.result # "saved" )
        => LET i == lastSave'.call IN
           /\ lastSave'.exit = "updated"
           /\ restartPending' = restartPending
           /\ sessionDir' = sessionDir
           /\ sessions' = sessions
           /\ activeSockets' = activeSockets
           /\ socketCreationTime' = socketCreationTime
           /\ socks'[i].conn = socks[i].conn
           /\ socks'[i].listeners = socks[i].listeners
      ]_vars

\* C12: a request to disconnect a number that is not in activeSockets is
\* answered 404 and changes nothing; a request for a number that is in
\* activeSockets, once answered with success, has left the number out of
\* activeSockets, of the stored sessions and of the roster; a second request
\* made right after the first, which has not been answered yet, is answered
\* 404.
C12_DisconnectRemovesAllTraces ==
    [][ /\ \A d \in DOMAIN discs' :
            ( d \notin DOMAIN discs /\ activeSockets[Sanitize(discs'[d].number)] = NoSocket )
            => /\ discs'[d].status = 404
               /\ UNCHANGED <<activeSockets, socketCreationTime, connecting,
                              sessions, numbers, sessionDir, calls, socks>>
        /\ \A d \in DOMAIN discs :
            ( discs[d].pc # "done" /\ discs'[d].status = 200 )
            => /\ activeSockets'[Sanitize(discs[d].number)] # discs[d].socket
               /\ sessions'[Sanitize(discs[d].number)] = NoSession
               /\ Sanitize(discs[d].number) \notin numbers'
        /\ \A d \in DOMAIN discs' :
            ( /\ d \notin DOMAIN discs /\ d > 1
              /\ discs[d - 1].pc # "done"
              /\ discs[d - 1].socket # NoSocket
              /\ Sanitize(discs[d - 1].number) = Sanitize(discs'[d].number) )
            => discs'[d].status = 404
      ]_vars

---------------------------------------------------------------------------
(* Dispatch *)

\* mek is a message, not a status, whose text is str
HasText(mek, str) ==
    /\ mek.hasMessage /\ mek.remoteJid # "status@broadcast"
    /\ mek.type \in {"conversation", "extendedTextMessage"}
    /\ mek.text = str

\* the descriptors registered with a pattern
WithPattern == { k \in CommandIds : Commands[k].pattern # NoPattern }

\* the last step ended a run of the messages.upsert listener of
\* inconnuboyPair for an event that holds a message
UpsertHandled ==
    /\ lastDispatch.call # 0
    /\ lastDispatch.listener = "upsert"
    /\ lastDispatch.mek.hasMessage

\* C16: a message that is not a status and whose text is the prefix
\* followed by the pattern of a registered descriptor has the handler of
\* that descriptor, and of no other, invoked once by the command lookup.
C16_CommandFiresOnce ==
    \A k \in WithPattern :
        ( UpsertHandled
          /\ HasText(lastDispatch.mek, PREFIX \o Commands[k].pattern) )
        => lastDispatch.cmd = <<k>>

\* C17: an image whose caption is the prefix followed by the pattern of a
\* registered descriptor, received with nothing failing and the sender
\* allowed, has the handler of that descriptor invoked by the command
\* lookup and the handler of the on-image descriptor invoked by the Execute
\* Events pass.
C17_CommandAndImageBothFire ==
    \A k \in WithPattern :
        ( /\ UpsertHandled
          /\ lastDispatch.mek.remoteJid # "status@broadcast"
          /\ lastDispatch.mek.type = "imageMessage"
          /\ lastDispatch.mek.text = PREFIX \o Commands[k].pattern
          /\ lastDispatch.fault = "none"
          /\ env.WORK_TYPE = "public" )
        => /\ lastDispatch.cmd = <<k>>
           /\ \E n \in DOMAIN lastDispatch.passive :
                 Commands[lastDispatch.passive[n]].on = "image"

\* the run of listener p after the step, when the step was one of p
After(p) ==
    { q \in (pending' \ pending) \cup {lastDispatch'} :
         q.call = p.call /\ q.listener = p.listener /\ q.mek = p.mek }

\* a handler that the messages.upsert listener invoked in the step failed
HandlerFailed ==
    \E p \in pending \ pending' :
       /\ p.listener = "upsert"
       /\ \E q \in After(p) : \/ q.unhandled > p.unhandled
                               \/ (q.pluginError /\ ~p.pluginError)

\* C18: when the handler of a descriptor invoked for an event fails, every
\* descriptor whose trigger matches the event is still invoked by the
\* Execute Events pass, the number stays in activeSockets, its socket keeps
\* its listeners, and the process goes on: no restart is issued.
C18_HandlerFailureIsIsolated ==
    [][ /\ HandlerFailed
           => /\ activeSockets' = activeSockets
              /\ socks' = socks
              /\ restartPending' = restartPending
        /\ ( /\ lastDispatch'.call # 0
             /\ lastDispatch'.listener = "upsert"
             /\ lastDispatch'.fault \in {"throws", "rejects"}
             /\ lastDispatch'.outcome = "done" )
           => \A k \in CommandIds :
                 PassiveMatches(k, lastDispatch'.mek, Body(lastDispatch'.mek))
                 => \E n \in DOMAIN lastDispatch'.passive :
                       lastDispatch'.passive[n] = k
      ]_vars

---------------------------------------------------------------------------
(* Configuration update *)

\* request r of /verify-otp has its answer from verifyOTPFromMongoDB
Verified(r) == r.number # NoNumber /\ r.pc \notin {"verify", "rejected"}

\* what a request of /verify-otp found: the kept OTP of its number has
\* its code and has not expired
ValidAtEntry(r) ==
    LET kept == r.seen[Sanitize(r.number)] IN
    /\ kept # NoOtp
    /\ kept.code = r.code
    /\ r.at <= kept.expires

\* C15: a /verify-otp request with an unknown code, an expired code or a
\* code bound to another number is rejected and applies nothing; a request
\* with a valid code succeeds, applying the configuration bound to the OTP
\* and consuming the OTP, and no OTP is accepted twice.
C15_VerifyOnce ==
    \A v \in DOMAIN verifies :
        LET r == verifies[v] IN
        Verified(r) =>
            /\ ~ValidAtEntry(r) =>
                   r.pc = "done" /\ r.status = 400 /\ r.applied = NoConfig
            /\ ValidAtEntry(r) /\ r.pc = "done" =>
                   /\ r.status = 200
                   /\ r.applied = r.seen[Sanitize(r.number)].config
            /\ ValidAtEntry(r) =>
                   \A w \in DOMAIN verifies :
                       ( w # v /\ Verified(verifies[w]) /\ ValidAtEntry(verifies[w]) )
                       => verifies[w].seen[Sanitize(verifies[w].number)].serial
                              # r.seen[Sanitize(r.number)].serial
---------------------------------------------------------------------------
(* Isolation of tenants *)

\* the numbers a step acts for: the number of the invocation, socket,
\* listener or request that took the step; for the restart of the process,
\* the number whose handler failure issued it
StepTenants ==
    IF restartPending # NoNumber /\ restartPending' = NoNumber
    THEN { restartPending }
    ELSE { Sanitize(calls'[i].number) : i \in
             { j \in DOMAIN calls' : \/ j \notin DOMAIN calls
                                     \/ calls'[j] # calls[j]
                                     \/ socks'[j] # socks[j] } }
         \cup { Sanitize(discs'[d].number) : d \in
                 { e \in DOMAIN discs' : e \notin DOMAIN discs \/ discs'[e] # discs[e] } }
         \cup { Sanitize(calls'[i].number) : i \in
                 { lastUpdate'.call, lastSave'.call, lastDispatch'.call } \ {0} }

\* C14: a step taken for one number, a failure of its message handlers and
\* what follows from it included, leaves the registry entry, the creation
\* timestamp, the connection lock and the retry counters of every other
\* number as they were.
C14_FailuresStayInTenant ==
    [][\A u \in Tenants \ StepTenants :
          /\ activeSockets'[u] = activeSockets[u]
          /\ socketCreationTime'[u] = socketCreationTime[u]
          /\ connecting'[u] = connecting[u]
          /\ \A i \in CallsOf(u) :
                 socks'[i].restartAttempts = socks[i].restartAttempts]_vars
---------------------------------------------------------------------------
(* Retry chains *)

\* the retries of t in flight: a close listener in its delay, or the
\* invocation it made, which has not returned
RetryInFlight(t) ==
    { i \in CallsOf(t) : socks[i].closePc = "delay" }
    \cup { i \in CallsOf(t) : calls[i].res = "mock" /\ calls[i].pc # "done" }

\* C21: at most one retry of a number is in flight, and when the invocation
\* made by a retry creates its socket no other socket of the number is
\* registered or has listeners.
C21_OneRetryChain ==
    [][/\ \A t \in Tenants : Cardinality(RetryInFlight(t))' <= 1
       /\ \A i \in DOMAIN socks :
              ( calls[i].res = "mock" /\ socks[i].conn = "none"
                /\ socks'[i].conn # "none" ) =>
                  /\ activeSockets[TenantOf(i)] = NoSocket
                  /\ \A j \in CallsOf(TenantOf(i)) \ {i} : ~socks[j].listeners]_vars

\* C22: a close that is neither a manual unlink nor an expected closure,
\* handled while the socket's counter is below maxRestartAttempts,
\* increments the counter, unregisters the number, removes the socket's
\* listeners and leaves the stored session as it is; the delay it starts
\* ends in an invocation of inconnuboyPair with the mock response.
C22_UnexpectedCloseRetries ==
    /\ [][\A i \in DOMAIN socks :
            ( /\ lastUpdate'.call = i
              /\ lastUpdate'.connection = "close"
              /\ ~IsManualUnlink(lastUpdate'.lastDisconnect)
              /\ ~isNormalError(lastUpdate'.lastDisconnect)
              /\ socks[i].restartAttempts < maxRestartAttempts ) =>
                /\ socks'[i].restartAttempts = socks[i].restartAttempts + 1
                /\ activeSockets'[TenantOf(i)] = NoSocket
                /\ socketCreationTime'[TenantOf(i)] = 0
                /\ ~socks'[i].listeners
                /\ sessions' = sessions
                /\ socks'[i].closePc = "delay"]_vars
    /\ \A i \in 1 .. MaxRetry :
          (i \in DOMAIN socks /\ socks[i].closePc = "delay")
              ~> ( /\ i \in DOMAIN socks
                   /\ socks[i].closePc = "reconnected"
                   /\ \E j \in DOMAIN calls :
                         /\ j > i
                         /\ calls[j].res = "mock"
                         /\ calls[j].number = calls[i].number )

C22_Witness ==
    \E i \in DOMAIN socks :
        /\ socks[i].closePc = "reconnected"
        /\ socks[i].restartAttempts = 1
        /\ \E j \in DOMAIN calls : j > i /\ calls[j].res = "mock"
---------------------------------------------------------------------------
(* Request of a configuration update *)

\* request q of /update-config wrote its OTP in this step
OtpSavedBy(q) ==
    LET r == requests[q]
        t == Sanitize(r.number)
    IN
    /\ r.pc = "saveOtp" /\ requests'[q].pc = "send"
    /\ otps' = [otps EXCEPT ![t] = [code |-> r.code, config |-> r.config,
                                     expires |-> clock + OtpValidity,
                                     serial |-> r.serial]]

\* a verification that found its OTP valid consumed it in this step
OtpConsumedBy(v) ==
    /\ verifies[v].pc = "verify" /\ verifies'[v].valid
    /\ otps' = [otps EXCEPT ![Sanitize(verifies[v].number)] = NoOtp]

\* C28: a request to update the configuration of a number that is not in
\* activeSockets is answered 404 and saves no OTP, then or later; for a
\* registered number the OTP is saved, bound to the requested configuration,
\* before the code is sent, and by no request that was answered 404; and the
\* persisted configuration changes only in the step of a verification that
\* found its OTP valid.
C28_UpdateNeedsSession ==
    [][/\ \A q \in DOMAIN requests' \ DOMAIN requests :
              LET r == requests'[q] IN
              /\ otps' = otps
              /\ r.status # 400 =>
                     IF activeSockets[Sanitize(r.number)] = NoSocket
                     THEN r.pc = "done" /\ r.status = 404
                     ELSE r.pc = "saveOtp" /\ r.status = 0
       /\ \A q \in DOMAIN requests :
              /\ requests[q].status \in {400, 404} =>
                     requests'[q] = requests[q] /\ ~requests[q].saved
              /\ requests'[q].pc = "send" =>
                     requests'[q].saved /\ (requests[q].pc = "send" \/ OtpSavedBy(q))
              /\ ( requests'[q].status \in {200, 500} /\ requests[q].status = 0 ) =>
                     requests[q].pc = "send" /\ requests[q].saved
       /\ otps' # otps =>
              \/ \E q \in DOMAIN requests : OtpSavedBy(q)
              \/ \E v \in DOMAIN verifies : OtpConsumedBy(v)
       /\ userConfig' # userConfig =>
              \E v \in DOMAIN verifies :
                  /\ verifies[v].valid /\ verifies[v].pc = "update"
                  /\ userConfig' = [userConfig EXCEPT
                         ![Sanitize(verifies[v].number)] = verifies[v].config]]_vars

\* a request answered with success, its OTP kept and the configuration as
\* it was, whose number is registered no more
C28_Witness ==
    \E q \in DOMAIN requests :
        LET r == requests[q]
            t == Sanitize(r.number)
        IN
        /\ r.status = 200 /\ r.saved
        /\ otps[t].code = r.code /\ otps[t].config = r.config
        /\ userConfig[t] = NoConfig
        /\ activeSockets[t] = NoSocket
---------------------------------------------------------------------------
(* Connect all *)

\* C23: a run of /connect-all or of autoReconnectFromMongoDB passes over a
\* number only if it is in activeSockets when its turn comes, invokes
\* inconnuboyPair with a mock response for a number that is not, starts no
\* invocation before the ones it made have returned, and once it has its
\* roster it ends only after the last number, whatever the invocations
\* ended in.
C23_OneAtATime ==
    [][\A r \in DOMAIN fleet :
          LET old == fleet[r]
              new == fleet'[r]
              ended == old.pc # "done" /\ new.pc = "done"
              roster == IF old.pc = "fetch" THEN new.roster ELSE old.roster
          IN
          /\ ( new.turn # old.turn /\ ~(ended /\ old.kind = "auto") ) =>
                 /\ \A j \in (old.turn + 1) .. (new.turn - 1) :
                        activeSockets[roster[j]] # NoSocket
                 /\ Len(new.invoked) = Len(old.invoked) =>
                        new.turn = Len(roster) + 1
          /\ Len(new.invoked) > Len(old.invoked) =>
                 LET c == new.call
                     number == roster[new.turn]
                 IN
                 /\ activeSockets[number] = NoSocket
                 /\ c \notin DOMAIN calls
                 /\ calls'[c].res = "mock"
                 /\ Sanitize(calls'[c].number) = number
                 /\ \A b \in DOMAIN old.invoked : calls[old.invoked[b]].pc = "done"
          /\ ( ended /\ old.kind = "auto" ) => calls' = calls
          /\ ( ended /\ old.kind = "route" /\ old.pc # "fetch" ) =>
                 /\ new.status = 200
                 /\ new.turn = Len(roster) + 1
                 /\ Len(new.results) = Len(roster)]_vars

C23_Witness ==
    \E r \in DOMAIN fleet :
        /\ fleet[r].kind = "route"
        /\ fleet[r].pc = "done"
        /\ fleet[r].status = 200
        /\ Len(fleet[r].invoked) = 2
        /\ calls[fleet[r].invoked[1]].exit = "error"
---------------------------------------------------------------------------
(* Pairing failure *)

\* C24: when requestPairingCode fails in the delayed task, the failure is
\* caught in the task, a response that was not answered yet receives the
\* pairing error, and the registry is left as it was: the number stays
\* registered with the socket while the socket has not closed.
C24_PairingFailureReported ==
    [][\A i \in DOMAIN socks :
          /\ ( /\ socks[i].pairTimer = "pending"
               /\ socks'[i].pairTimer = "fired"
               /\ socks'[i].pairing # "new_pairing" ) =>
                  /\ socks'[i].pairing = "pairing_error"
                  /\ headersSent(calls[i]) \/ calls[i].res # "http"
                         \/ calls'[i].sent = <<"pairing_error">>
                  /\ activeSockets' = activeSockets
                  /\ socketCreationTime' = socketCreationTime
          /\ ( /\ socks'[i].pairing = "pairing_error"
               /\ socks'[i].conn \in {"connecting", "open"} ) =>
                  activeSockets'[TenantOf(i)] = i]_vars

C24_Witness ==
    \E i \in DOMAIN socks :
        /\ socks[i].pairing = "pairing_error"
        /\ calls[i].sent = <<"pairing_error">>
        /\ socks[i].conn = "open"
        /\ activeSockets[TenantOf(i)] = i
---------------------------------------------------------------------------
(* Result sink *)

SinkResponses ==
    {"already_connected", "connection_in_progress", "reconnecting",
     "new_pairing", "pairing_error", "internal_error"}

\* C30: an invocation of inconnuboyPair with the express response writes
\* at most one response, one of the six kinds, and in the end it has
\* written one, the delayed pairing task included.
C30_ExactlyOneResponse ==
    /\ [](\A i \in DOMAIN calls :
            calls[i].res = "http" =>
                /\ Len(calls[i].sent) <= 1
                /\ \A k \in DOMAIN calls[i].sent : calls[i].sent[k] \in SinkResponses)
    /\ [][\A i \in DOMAIN calls :
            Len(calls[i].sent) = 1 => calls'[i].sent = calls[i].sent]_vars
    /\ \A i \in 1 .. MaxSink :
          (i \in DOMAIN calls /\ calls[i].res = "http")
              ~> (i \in DOMAIN calls /\ Len(calls[i].sent) = 1)

C30_Witness ==
    \E i \in DOMAIN calls, j \in DOMAIN calls :
        /\ calls[i].res = "http" /\ calls[i].sent = <<"pairing_error">>
        /\ calls[j].res = "http" /\ calls[j].sent = <<"connection_in_progress">>
\* C25: for a non-status event received with nothing failing, every
\* descriptor with a non-command trigger that matches the event has its
\* handler invoked by the Execute Events pass, whatever the command lookup
\* did: found a descriptor, found none, or skipped the one it found.
C25_PassiveIndependentOfCommand ==
    \A k \in CommandIds :
        ( /\ UpsertHandled
          /\ lastDispatch.mek.remoteJid # "status@broadcast"
          /\ lastDispatch.fault = "none"
          /\ PassiveMatches(k, lastDispatch.mek, Body(lastDispatch.mek)) )
        => \E n \in DOMAIN lastDispatch.passive : lastDispatch.passive[n] = k

\* C27: when one incrementStats call of an event fails, the handlers invoked
\* for the event, by the command lookup and by the Execute Events pass, are
\* those invoked for the same event when nothing fails.
C27_StatsAreBestEffort ==
    ( UpsertHandled /\ lastDispatch.fault = "stats" )
    => LET unfailed == Dispatch(lastDispatch.mek, NoFault, env.WORK_TYPE,
                                lastDispatch.flags)
       IN /\ lastDispatch.cmd = unfailed.cmd
          /\ lastDispatch.passive = unfailed.passive

\* the flags that the listener of the last event read
FlagsOfLast == lastDispatch.flags

\* what was done for the event of the last step
Did(behaviour) == \E n \in DOMAIN lastDispatch.auto : lastDispatch.auto[n] = behaviour

\* the last step ended a run of the messages.upsert listener of
\* inconnuboyPair for a status event
StatusHandled ==
    /\ UpsertHandled
    /\ lastDispatch.mek.remoteJid = "status@broadcast"

\* C26: a status event is handled by auto view, auto like and auto reply
\* only, each done exactly when its flag is set and nothing fails, and
\* reaches no command lookup, no Execute Events pass and no counter.
C26_StatusOnlyAutomation ==
    StatusHandled
    => /\ \A n \in DOMAIN lastDispatch.auto :
              lastDispatch.auto[n] \in {"view", "like", "reply"}
       /\ lastDispatch.fault = "none" =>
              /\ Did("view") <=> FlagsOfLast.AUTO_VIEW_STATUS
              /\ Did("like") <=> FlagsOfLast.AUTO_LIKE_STATUS
              /\ Did("reply") <=> FlagsOfLast.AUTO_STATUS_REPLY
       /\ lastDispatch.cmd = <<>>
       /\ lastDispatch.passive = <<>>
       /\ lastDispatch.stats = <<>>

\* a listener that ran to its end in the last step, with its flags read
\* and none of the calls it awaited of the protocol client failing
Ran(listeners, outcomes) ==
    /\ lastDispatch.call # 0
    /\ lastDispatch.listener \in listeners
    /\ lastDispatch.outcome \in outcomes
    /\ lastDispatch.fault \notin {"config", "client"}

\* the runs of listeners that had the answer of getUserConfigFromMongoDB
\* in the step
JustRead ==
    { q \in pending' \ pending :
         Suspended(q.call, q.listener, q.mek) \in pending }
    \cup { q \in {lastDispatch'} : q.pc = "config" /\ q.fault # "config" }

\* a listener that ended is gated by the flags it read
GatedByItsFlags ==
    /\ Ran({"calls", "call"}, {"call"}) =>
           ( Did("rejectCall") <=> FlagsOfLast.ANTI_CALL )
    /\ Ran({"upsert"}, {"status", "done", "private"}) =>
           ( Did("read") <=> FlagsOfLast.READ_MESSAGE )
    /\ Ran({"upsert"}, {"status"}) =>
           lastDispatch.auto = AutoRead(FlagsOfLast) \o StatusAutomation(FlagsOfLast)
    /\ Ran({"upsert"}, {"done", "private"}) =>
           /\ Did("composing") <=> FlagsOfLast.AUTO_TYPING
           /\ Did("recording") <=> FlagsOfLast.AUTO_RECORDING
    /\ Ran({"messages"}, {"presence"}) =>
           lastDispatch.auto = AutoPresence(FlagsOfLast)

C33_MapsHaveSameKeys ==
    \A t \in Tenants :
        ( activeSockets[t] # NoSocket ) <=> ( socketCreationTime[t] # 0 )

\* a number registered by a request, unregistered by an unexpected close,
\* registered again by the reconnect and unregistered by a disconnect
C33_Witness ==
    \E t \in Tenants, d \in DOMAIN discs :
        /\ Sanitize(discs[d].number) = t
        /\ discs[d].status = 200
        /\ socks[discs[d].socket].conn = "closed"
        /\ \E i \in DOMAIN socks :
              i # discs[d].socket /\ socks[i].closePc = "reconnected"
        /\ activeSockets[t] = NoSocket
        /\ socketCreationTime[t] = 0

\* the last socket of t closed with an expected closure: nothing of t is
\* connecting or open, and no invocation for t is running
ExpectedlyClosed(t) ==
    /\ \E i \in CallsOf(t) : socks[i].closePc = "normal"
    /\ LiveSockets(t) = {}
    /\ InFlight(t) = {}
    /\ ~connecting[t]

\* C32: a request to connect a number whose socket closed with an expected
\* closure (status 408, or the pairing code expired) is not answered
\* already_connected: it takes the lock and starts a fresh attempt.
C32_ExpectedClosureAllowsConnect ==
    [][ \A j \in DOMAIN calls' :
          ( /\ j \notin DOMAIN calls
            /\ calls'[j].res = "http"
            /\ ExpectedlyClosed(Sanitize(calls'[j].number)) )
          => /\ calls'[j].exit # "already_connected"
             /\ calls'[j].pc = "getSession"
      ]_vars

\* t is in none of activeSockets, the stored sessions and the roster
Absent(t) ==
    /\ activeSockets[t] = NoSocket
    /\ sessions[t] = NoSession
    /\ t \notin numbers

\* request d to disconnect was answered with success, and no request to
\* connect its number was made after the invocation that created the socket
\* it closed
DisconnectedSince(d) ==
    /\ discs[d].status = 200
    /\ \A j \in CallsOf(Sanitize(discs[d].number)) :
          j > discs[d].socket => calls[j].res = "mock"

\* C31: once a request to disconnect a number is answered with success and
\* the number is in none of activeSockets, the stored sessions and the
\* roster, it stays so while no request to connect it is made, and the
\* connection.update listener of the socket the route closed neither
\* starts the delay of a retry nor calls inconnuboyPair.
C31_DisconnectedStaysAbsent ==
    [][ \A d \in DOMAIN discs :
          ( /\ DisconnectedSince(d)
            /\ DisconnectedSince(d)'
            /\ Absent(Sanitize(discs[d].number)) )
          => /\ Absent(Sanitize(discs[d].number))'
             /\ socks'[discs[d].socket].closePc \in {"delay", "reconnected"}
                   => socks'[discs[d].socket].closePc = socks[discs[d].socket].closePc
      ]_vars

====
